---- MODULE Spec2Model ----
(***************************************************************************)
(* A model of xpid, the XH-pi interaction detector.                        *)
(*                                                                         *)
(* Numbers.  The program computes with floating point values; the model    *)
(* keeps them as fixed-point integers:                                      *)
(*   - a distance is an integer number of 1e-6 Angstrom (4.3 A = 4300000), *)
(*   - an angle is an integer number of 1e-6 degree (120.0 = 120000000),   *)
(*   - a value stored in a record after round(., 3) of a distance is an    *)
(*     integer number of 1e-3 Angstrom, after round(., 2) of an angle an   *)
(*     integer number of 1e-2 degree.                                      *)
(* Python's None ("no value") is the integer NoValue, which is below every *)
(* distance and every angle; every operator tests for it before it         *)
(* compares.                                                               *)
(*                                                                         *)
(* The structure.  gemmi's Structure / Model / Chain / Residue / Atom      *)
(* hierarchy is a record of sequences.  The geometry of a pi-system and    *)
(* the answers of the Neighbor Index are data of the structure: a residue  *)
(* carries, for each pi-system variant, the atoms of the model around the  *)
(* pi-center ("marks"), each with the values the geometry kernel returns   *)
(* for it, and each such atom carries the atoms around itself.             *)
(***************************************************************************)
EXTENDS Integers, Sequences, FiniteSets, TLC

VARIABLES
    structure,        \* the prepared structure handed to the engine
    pc,               \* position in detect_interactions_in_structure:
                      \*   "idle" | "models" | "done" | "raised"
    args,             \* the arguments of the current call
    models_with_ids,  \* core.py:29  list of (model index, model_id)
    mi,               \* number of entries of models_with_ids already processed
    results,          \* core.py:23  the list of records being built
    evaluated,        \* the locals of every triple that reached core.py:132
    calls,            \* the completed calls on this structure: <<[args, results]>>
    batch,            \* cli.py:263  the files of the batch
    opts,             \* cli.py:323  the options every task of the batch carries
    pool,             \* cli.py:338  the pool: the next task to hand out, the task
                      \*   each worker runs, the results not yet taken by main()
    pending,          \* the tasks whose result main() has not accounted for yet
    outcomes,         \* cli.py:339  per file, what process_one_file returned
    error_logs,       \* cli.py:325
    total_found,      \* cli.py:326
    merged,           \* the records written to the merged output, in order
    api,              \* per file, what xpid.detect() returned
    geom,             \* the positions handed to the geometry kernel, and its answers
    secondary,        \* residue_ss.py: the annotations, the index built, the queries
    cache,            \* prep.py:14-15  _CACHED_MONLIB, _CACHED_LIB_PATH and the calls
    streamer          \* cli.py:61  one ResultStreamer and the file it writes

vars == <<structure, pc, args, models_with_ids, mi, results, evaluated, calls,
          batch, opts, pool, pending, outcomes, error_logs, total_found, merged, api,
          geom, secondary, cache, streamer>>

engineVars == <<structure, pc, args, models_with_ids, mi, results, evaluated, calls>>
driverVars == <<batch, opts, pool, pending, outcomes, error_logs, total_found, merged, api>>
kernelVars == <<geom, secondary, cache, streamer>>

----------------------------------------------------------------------------
(* Helpers *)

NoValue == -1

(* residue.seqid.num of a residue that carries no number: gemmi keeps      *)
(* INT_MIN for it and hands Python None, with which core.py:162 and        *)
(* residue_ss.py:80 raise TypeError                                        *)
NoNum == -2147483647 - 1

RECURSIVE SeqSum(_)
SeqSum(s) == IF s = <<>> THEN 0 ELSE Head(s) + SeqSum(Tail(s))

RECURSIVE Flatten(_)
Flatten(ss) == IF ss = <<>> THEN <<>> ELSE Head(ss) \o Flatten(Tail(ss))

Range(s) == {s[i] : i \in DOMAIN s}

Abs(n) == IF n < 0 THEN -n ELSE n

(* floor(log2(n)) for n >= 1, 2^e, and 2^e modulo m *)
RECURSIVE Log2(_)
Log2(n) == IF n < 2 THEN 0 ELSE 1 + Log2(n \div 2)

RECURSIVE Pow2(_)
Pow2(e) == IF e = 0 THEN 1 ELSE 2 * Pow2(e - 1)

RECURSIVE Pow2Mod(_, _)
Pow2Mod(e, m) == IF e = 0 THEN 1 % m ELSE (2 * Pow2Mod(e - 1, m)) % m

(* rint(x * Q) for the float64 x nearest to the decimal (k + 1/2) / Q, Q a  *)
(* power of ten.  With n = 2k + 1, x is the 53-bit value nearest n / 2Q:    *)
(* its error, in units of its last bit 2^-s, is -rem / 2Q when it is        *)
(* rounded down and (2Q - rem) / 2Q when it is rounded up, where rem =      *)
(* n * 2^s mod 2Q.  The product x * Q is k + 1/2 plus Q times that error,   *)
(* rounded to a double: it stays k + 1/2, and rint takes it to the even     *)
(* neighbour, unless the error exceeds half the last bit of k + 1/2, which  *)
(* it can only when x is in the upper part of its binade (top), where the   *)
(* last bit of the product is 2^Log2(Q) times that of x.                   *)
rint_of_tie(k, Q) ==
    LET n    == 2 * k + 1
        dmin == Log2(Q)
        P    == Pow2(Log2(n))
        top  == IF P >= Pow2(dmin) THEN n >= Q * (P \div Pow2(dmin))
                ELSE n * Pow2(dmin) >= Q * P
        s    == 53 - Log2(n) + dmin
        rem  == ((n % (2 * Q)) * Pow2Mod(s, 2 * Q)) % (2 * Q)
    IN  IF top /\ rem > Q /\ 2 * Q - rem > Pow2(dmin) THEN k + 1
        ELSE IF top /\ rem < Q /\ rem > Pow2(dmin) THEN k
        ELSE IF k % 2 = 0 THEN k ELSE k + 1

(* numpy's round of a float64 x to d decimals is rint(x * 10^d) / 10^d.     *)
(* v >= 0 is the value in units of 10^-6, q the number of units in the last *)
(* decimal kept (10^(6-d)).  A value that is no decimal tie goes to the     *)
(* nearest; a decimal tie goes where the double product falls.             *)
numpy_round(v, q) ==
    LET lo == v \div q
        r  == v % q
    IN  IF 2 * r < q THEN lo
        ELSE IF 2 * r > q THEN lo + 1
        ELSE rint_of_tie(lo, 1000000 \div q)

(* core.py:192, 216  round(dist_x_pi, 3), round(proj_dist, 3): 1e-6 to 1e-3 Angstrom *)
Round3(dist) == numpy_round(dist, 1000)

(* core.py:213-215  round(angle, 2): 1e-6 to 1e-2 degree *)
Round2(angle) == numpy_round(angle, 10000)

(* str(n) for n >= 0 *)
Digits == <<"0", "1", "2", "3", "4", "5", "6", "7", "8", "9">>

RECURSIVE str(_)
str(n) == IF n < 10 THEN Digits[n + 1] ELSE str(n \div 10) \o Digits[(n % 10) + 1]

----------------------------------------------------------------------------
(* config.py *)

RING_ATOMS ==
    [r \in {"TRP", "TYR", "PHE", "HIS"} |->
        CASE r = "TRP" -> {"CD2", "CE2", "CE3", "CZ2", "CZ3", "CH2"}
          [] r = "TYR" -> {"CD1", "CD2", "CE1", "CE2", "CZ", "CG"}
          [] r = "PHE" -> {"CD1", "CD2", "CE1", "CE2", "CZ", "CG"}
          [] r = "HIS" -> {"CE1", "ND1", "NE2", "CG", "CD2"}]

TRP_A_ATOMS == [r \in {"TRP"} |-> {"CD1", "CD2", "NE1", "CG", "CE2"}]

TARGET_ELEMENTS_X == {"C", "N", "O", "S"}
TARGET_ELEMENTS_H == {"H", "D"}

DIST_SEARCH_LIMIT == 6000000
DIST_PLEVIN_MAX == 4300000
DIST_HUDSON_MAX == 4500000
DIST_CUTOFF_H == 1300000

(* the literals of core.py's criteria *)
XH_PI_ANGLE_MIN == 120000000
XPCN_ANGLE_MAX == 25000000
THETA_MAX == 40000000
PROJ_THRESHOLD_5RING == 1600000
PROJ_THRESHOLD_6RING == 2000000

----------------------------------------------------------------------------
(* geometry.py *)
(*                                                                         *)
(* A position or a vector is a triple of integers, in Angstrom.  A length   *)
(* is returned in 1e-6 Angstrom, an angle in 1e-6 degree.                   *)
Sub(a, b) == <<a[1] - b[1], a[2] - b[2], a[3] - b[3]>>

Dot(a, b) == a[1] * b[1] + a[2] * b[2] + a[3] * b[3]

NormSq(v) == Dot(v, v)

RECURSIVE GCD(_, _)
GCD(a, b) == IF b = 0 THEN a ELSE GCD(b, a % b)

(* np.linalg.norm of a vector of integer components and squared length n:  *)
(* the square root of n, to the nearest 1e-6 Angstrom                      *)
Norm(n) ==
    CASE n = 0 -> 0
      [] n = 1 -> 1000000
      [] n = 2 -> 1414214
      [] n = 3 -> 1732051
      [] n = 4 -> 2000000
      [] n = 5 -> 2236068
      [] n = 6 -> 2449490
      [] n = 7 -> 2645751
      [] n = 8 -> 2828427
      [] n = 9 -> 3000000
      [] n = 10 -> 3162278
      [] n = 11 -> 3316625
      [] n = 12 -> 3464102
      [] n = 13 -> 3605551
      [] n = 14 -> 3741657
      [] n = 15 -> 3872983
      [] n = 16 -> 4000000
      [] n = 17 -> 4123106
      [] n = 18 -> 4242641
      [] n = 19 -> 4358899
      [] n = 20 -> 4472136
      [] n = 21 -> 4582576
      [] n = 22 -> 4690416
      [] n = 23 -> 4795832
      [] n = 24 -> 4898979
      [] n = 25 -> 5000000
      [] n = 26 -> 5099020
      [] n = 27 -> 5196152
      [] n = 28 -> 5291503
      [] n = 29 -> 5385165
      [] n = 30 -> 5477226
      [] n = 31 -> 5567764
      [] n = 32 -> 5656854
      [] n = 33 -> 5744563
      [] n = 34 -> 5830952
      [] n = 35 -> 5916080
      [] n = 36 -> 6000000
      [] n = 37 -> 6082763
      [] n = 38 -> 6164414
      [] n = 39 -> 6244998
      [] n = 40 -> 6324555
      [] n = 41 -> 6403124
      [] n = 42 -> 6480741
      [] n = 43 -> 6557439
      [] n = 44 -> 6633250
      [] n = 45 -> 6708204
      [] n = 46 -> 6782330
      [] n = 47 -> 6855655
      [] n = 48 -> 6928203
      [] n = 49 -> 7000000
      [] n = 50 -> 7071068
      [] n = 51 -> 7141428
      [] n = 52 -> 7211103
      [] n = 53 -> 7280110
      [] n = 54 -> 7348469
      [] n = 55 -> 7416198
      [] n = 56 -> 7483315
      [] n = 57 -> 7549834
      [] n = 58 -> 7615773
      [] n = 59 -> 7681146
      [] n = 60 -> 7745967
      [] n = 61 -> 7810250
      [] n = 62 -> 7874008
      [] n = 63 -> 7937254
      [] n = 64 -> 8000000
      [] n = 65 -> 8062258
      [] n = 66 -> 8124038
      [] n = 67 -> 8185353
      [] n = 68 -> 8246211
      [] n = 69 -> 8306624
      [] n = 70 -> 8366600
      [] n = 71 -> 8426150
      [] n = 72 -> 8485281
      [] n = 73 -> 8544004
      [] n = 74 -> 8602325
      [] n = 75 -> 8660254
      [] n = 76 -> 8717798
      [] n = 77 -> 8774964
      [] n = 78 -> 8831761
      [] n = 79 -> 8888194
      [] n = 80 -> 8944272
      [] n = 81 -> 9000000
      [] n = 82 -> 9055385
      [] n = 83 -> 9110434
      [] n = 84 -> 9165151
      [] n = 85 -> 9219544
      [] n = 86 -> 9273618
      [] n = 87 -> 9327379
      [] n = 88 -> 9380832
      [] n = 89 -> 9433981
      [] n = 90 -> 9486833
      [] n = 91 -> 9539392
      [] n = 92 -> 9591663
      [] n = 93 -> 9643651
      [] n = 94 -> 9695360
      [] n = 95 -> 9746794
      [] n = 96 -> 9797959
      [] n = 97 -> 9848858
      [] n = 98 -> 9899495
      [] n = 99 -> 9949874
      [] n = 100 -> 10000000
      [] n = 101 -> 10049876
      [] n = 102 -> 10099505
      [] n = 103 -> 10148892
      [] n = 104 -> 10198039
      [] n = 105 -> 10246951
      [] n = 106 -> 10295630
      [] n = 107 -> 10344080
      [] n = 108 -> 10392305
      [] n = 109 -> 10440307
      [] n = 110 -> 10488088
      [] n = 111 -> 10535654
      [] n = 112 -> 10583005
      [] n = 113 -> 10630146
      [] n = 114 -> 10677078
      [] n = 115 -> 10723805
      [] n = 116 -> 10770330
      [] n = 117 -> 10816654
      [] n = 118 -> 10862780
      [] n = 119 -> 10908712
      [] n = 120 -> 10954451
      [] n = 121 -> 11000000
      [] n = 122 -> 11045361
      [] n = 123 -> 11090537
      [] n = 124 -> 11135529
      [] n = 125 -> 11180340
      [] n = 126 -> 11224972
      [] n = 127 -> 11269428
      [] n = 128 -> 11313708
      [] n = 129 -> 11357817
      [] n = 130 -> 11401754
      [] n = 131 -> 11445523
      [] n = 132 -> 11489125
      [] n = 133 -> 11532563
      [] n = 134 -> 11575837
      [] n = 135 -> 11618950
      [] n = 136 -> 11661904
      [] n = 137 -> 11704700
      [] n = 138 -> 11747340
      [] n = 139 -> 11789826
      [] n = 140 -> 11832160
      [] n = 141 -> 11874342
      [] n = 142 -> 11916375
      [] n = 143 -> 11958261
      [] n = 144 -> 12000000
      [] n = 145 -> 12041595
      [] n = 146 -> 12083046
      [] n = 147 -> 12124356
      [] n = 148 -> 12165525
      [] n = 149 -> 12206556
      [] n = 150 -> 12247449
      [] n = 151 -> 12288206
      [] n = 152 -> 12328828
      [] n = 153 -> 12369317
      [] n = 154 -> 12409674
      [] n = 155 -> 12449900
      [] n = 156 -> 12489996
      [] n = 157 -> 12529964
      [] n = 158 -> 12569805
      [] n = 159 -> 12609520
      [] n = 160 -> 12649111
      [] n = 161 -> 12688578
      [] n = 162 -> 12727922
      [] n = 163 -> 12767145
      [] n = 164 -> 12806248
      [] n = 165 -> 12845233
      [] n = 166 -> 12884099
      [] n = 167 -> 12922848
      [] n = 168 -> 12961481
      [] n = 169 -> 13000000
      [] n = 170 -> 13038405
      [] n = 171 -> 13076697
      [] n = 172 -> 13114877
      [] n = 173 -> 13152946
      [] n = 174 -> 13190906
      [] n = 175 -> 13228757
      [] n = 176 -> 13266499
      [] n = 177 -> 13304135
      [] n = 178 -> 13341664
      [] n = 179 -> 13379088
      [] n = 180 -> 13416408
      [] n = 181 -> 13453624
      [] n = 182 -> 13490738
      [] n = 183 -> 13527749
      [] n = 184 -> 13564660
      [] n = 185 -> 13601471
      [] n = 186 -> 13638182
      [] n = 187 -> 13674794
      [] n = 188 -> 13711309
      [] n = 189 -> 13747727
      [] n = 190 -> 13784049
      [] n = 191 -> 13820275
      [] n = 192 -> 13856406
      [] n = 193 -> 13892444
      [] n = 194 -> 13928388
      [] n = 195 -> 13964240
      [] n = 196 -> 14000000
      [] n = 197 -> 14035669
      [] n = 198 -> 14071247
      [] n = 199 -> 14106736
      [] n = 200 -> 14142136

(* np.degrees(np.arccos(c)) for 0 <= c < 1 with c * c = p / q in lowest     *)
(* terms, to the nearest 1e-6 degree                                       *)
AcuteDeg(p, q) ==
    CASE p = 0 -> 90000000
      [] p = 1 /\ q = 2 -> 45000000
      [] p = 1 /\ q = 3 -> 54735610
      [] p = 2 /\ q = 3 -> 35264390
      [] p = 1 /\ q = 4 -> 60000000
      [] p = 3 /\ q = 4 -> 30000000
      [] p = 1 /\ q = 5 -> 63434949
      [] p = 2 /\ q = 5 -> 50768480
      [] p = 3 /\ q = 5 -> 39231520
      [] p = 4 /\ q = 5 -> 26565051
      [] p = 1 /\ q = 6 -> 65905157
      [] p = 5 /\ q = 6 -> 24094843
      [] p = 1 /\ q = 7 -> 67792346
      [] p = 2 /\ q = 7 -> 57688467
      [] p = 3 /\ q = 7 -> 49106605
      [] p = 4 /\ q = 7 -> 40893395
      [] p = 5 /\ q = 7 -> 32311533
      [] p = 6 /\ q = 7 -> 22207654
      [] p = 1 /\ q = 8 -> 69295189
      [] p = 3 /\ q = 8 -> 52238756
      [] p = 5 /\ q = 8 -> 37761244
      [] p = 7 /\ q = 8 -> 20704811
      [] p = 1 /\ q = 9 -> 70528779
      [] p = 2 /\ q = 9 -> 61874494
      [] p = 4 /\ q = 9 -> 48189685
      [] p = 5 /\ q = 9 -> 41810315
      [] p = 7 /\ q = 9 -> 28125506
      [] p = 8 /\ q = 9 -> 19471221
      [] p = 1 /\ q = 10 -> 71565051
      [] p = 3 /\ q = 10 -> 56789089
      [] p = 7 /\ q = 10 -> 33210911
      [] p = 9 /\ q = 10 -> 18434949
      [] p = 1 /\ q = 11 -> 72451599
      [] p = 2 /\ q = 11 -> 64760598
      [] p = 3 /\ q = 11 -> 58517846
      [] p = 4 /\ q = 11 -> 52913310
      [] p = 5 /\ q = 11 -> 47607954
      [] p = 6 /\ q = 11 -> 42392046
      [] p = 7 /\ q = 11 -> 37086690
      [] p = 8 /\ q = 11 -> 31482154
      [] p = 9 /\ q = 11 -> 25239402
      [] p = 10 /\ q = 11 -> 17548401
      [] p = 1 /\ q = 12 -> 73221345
      [] p = 5 /\ q = 12 -> 49797034
      [] p = 7 /\ q = 12 -> 40202966
      [] p = 11 /\ q = 12 -> 16778655
      [] p = 1 /\ q = 13 -> 73897886
      [] p = 2 /\ q = 13 -> 66906531
      [] p = 3 /\ q = 13 -> 61289485
      [] p = 4 /\ q = 13 -> 56309932
      [] p = 5 /\ q = 13 -> 51671182
      [] p = 6 /\ q = 13 -> 47205863
      [] p = 7 /\ q = 13 -> 42794137
      [] p = 8 /\ q = 13 -> 38328818
      [] p = 9 /\ q = 13 -> 33690068
      [] p = 10 /\ q = 13 -> 28710515
      [] p = 11 /\ q = 13 -> 23093469
      [] p = 12 /\ q = 13 -> 16102114
      [] p = 1 /\ q = 14 -> 74498640
      [] p = 3 /\ q = 14 -> 62424952
      [] p = 5 /\ q = 14 -> 53300775
      [] p = 9 /\ q = 14 -> 36699225
      [] p = 11 /\ q = 14 -> 27575048
      [] p = 13 /\ q = 14 -> 15501360
      [] p = 1 /\ q = 15 -> 75036783
      [] p = 2 /\ q = 15 -> 68583286
      [] p = 4 /\ q = 15 -> 58909070
      [] p = 7 /\ q = 15 -> 46911277
      [] p = 8 /\ q = 15 -> 43088723
      [] p = 11 /\ q = 15 -> 31090930
      [] p = 13 /\ q = 15 -> 21416714
      [] p = 14 /\ q = 15 -> 14963217
      [] p = 1 /\ q = 16 -> 75522488
      [] p = 3 /\ q = 16 -> 64341094
      [] p = 5 /\ q = 16 -> 56012156
      [] p = 7 /\ q = 16 -> 48590378
      [] p = 9 /\ q = 16 -> 41409622
      [] p = 11 /\ q = 16 -> 33987844
      [] p = 13 /\ q = 16 -> 25658906
      [] p = 15 /\ q = 16 -> 14477512
      [] p = 1 /\ q = 17 -> 75963757
      [] p = 2 /\ q = 17 -> 69940417
      [] p = 3 /\ q = 17 -> 65160108
      [] p = 4 /\ q = 17 -> 60982859
      [] p = 5 /\ q = 17 -> 57157870
      [] p = 6 /\ q = 17 -> 53552318
      [] p = 7 /\ q = 17 -> 50082124
      [] p = 8 /\ q = 17 -> 46686143
      [] p = 9 /\ q = 17 -> 43313857
      [] p = 10 /\ q = 17 -> 39917876
      [] p = 11 /\ q = 17 -> 36447682
      [] p = 12 /\ q = 17 -> 32842130
      [] p = 13 /\ q = 17 -> 29017141
      [] p = 14 /\ q = 17 -> 24839892
      [] p = 15 /\ q = 17 -> 20059583
      [] p = 16 /\ q = 17 -> 14036243
      [] p = 1 /\ q = 18 -> 76366978
      [] p = 5 /\ q = 18 -> 58193900
      [] p = 7 /\ q = 18 -> 51419794
      [] p = 11 /\ q = 18 -> 38580206
      [] p = 13 /\ q = 18 -> 31806100
      [] p = 17 /\ q = 18 -> 13633022
      [] p = 1 /\ q = 19 -> 76737324
      [] p = 2 /\ q = 19 -> 71068177
      [] p = 3 /\ q = 19 -> 66586776
      [] p = 4 /\ q = 19 -> 62688270
      [] p = 5 /\ q = 19 -> 59136857
      [] p = 6 /\ q = 19 -> 55809136
      [] p = 7 /\ q = 19 -> 52628762
      [] p = 8 /\ q = 19 -> 49542360
      [] p = 9 /\ q = 19 -> 46508481
      [] p = 10 /\ q = 19 -> 43491519
      [] p = 11 /\ q = 19 -> 40457640
      [] p = 12 /\ q = 19 -> 37371238
      [] p = 13 /\ q = 19 -> 34190864
      [] p = 14 /\ q = 19 -> 30863143
      [] p = 15 /\ q = 19 -> 27311730
      [] p = 16 /\ q = 19 -> 23413224
      [] p = 17 /\ q = 19 -> 18931823
      [] p = 18 /\ q = 19 -> 13262676
      [] p = 1 /\ q = 20 -> 77079034
      [] p = 3 /\ q = 20 -> 67213502
      [] p = 7 /\ q = 20 -> 53728802
      [] p = 9 /\ q = 20 -> 47869585
      [] p = 11 /\ q = 20 -> 42130415
      [] p = 13 /\ q = 20 -> 36271198
      [] p = 17 /\ q = 20 -> 22786498
      [] p = 19 /\ q = 20 -> 12920966
      [] p = 1 /\ q = 21 -> 77395617
      [] p = 2 /\ q = 21 -> 72024716
      [] p = 4 /\ q = 21 -> 64123310
      [] p = 5 /\ q = 21 -> 60794068
      [] p = 8 /\ q = 21 -> 51887073
      [] p = 10 /\ q = 21 -> 46364701
      [] p = 11 /\ q = 21 -> 43635299
      [] p = 13 /\ q = 21 -> 38112927
      [] p = 16 /\ q = 21 -> 29205932
      [] p = 17 /\ q = 21 -> 25876690
      [] p = 19 /\ q = 21 -> 17975284
      [] p = 20 /\ q = 21 -> 12604383
      [] p = 1 /\ q = 22 -> 77690011
      [] p = 3 /\ q = 22 -> 68329121
      [] p = 5 /\ q = 22 -> 61527866
      [] p = 7 /\ q = 22 -> 55661843
      [] p = 9 /\ q = 22 -> 50237841
      [] p = 13 /\ q = 22 -> 39762159
      [] p = 15 /\ q = 22 -> 34338157
      [] p = 17 /\ q = 22 -> 28472134
      [] p = 19 /\ q = 22 -> 21670879
      [] p = 21 /\ q = 22 -> 12309989
      [] p = 1 /\ q = 23 -> 77964693
      [] p = 2 /\ q = 23 -> 72849424
      [] p = 3 /\ q = 23 -> 68828697
      [] p = 4 /\ q = 23 -> 65352853
      [] p = 5 /\ q = 23 -> 62208694
      [] p = 6 /\ q = 23 -> 59285939
      [] p = 7 /\ q = 23 -> 56517842
      [] p = 8 /\ q = 23 -> 53859466
      [] p = 9 /\ q = 23 -> 51277929
      [] p = 10 /\ q = 23 -> 48747359
      [] p = 11 /\ q = 23 -> 46245953
      [] p = 12 /\ q = 23 -> 43754047
      [] p = 13 /\ q = 23 -> 41252641
      [] p = 14 /\ q = 23 -> 38722071
      [] p = 15 /\ q = 23 -> 36140534
      [] p = 16 /\ q = 23 -> 33482158
      [] p = 17 /\ q = 23 -> 30714061
      [] p = 18 /\ q = 23 -> 27791306
      [] p = 19 /\ q = 23 -> 24647147
      [] p = 20 /\ q = 23 -> 21171303
      [] p = 21 /\ q = 23 -> 17150576
      [] p = 22 /\ q = 23 -> 12035307
      [] p = 1 /\ q = 24 -> 78221768
      [] p = 5 /\ q = 24 -> 62842667
      [] p = 7 /\ q = 24 -> 57312159
      [] p = 11 /\ q = 24 -> 47390096
      [] p = 13 /\ q = 24 -> 42609904
      [] p = 17 /\ q = 24 -> 32687841
      [] p = 19 /\ q = 24 -> 27157333
      [] p = 23 /\ q = 24 -> 11778232
      [] p = 1 /\ q = 25 -> 78463041
      [] p = 2 /\ q = 25 -> 73570060
      [] p = 3 /\ q = 25 -> 69732099
      [] p = 4 /\ q = 25 -> 66421822
      [] p = 6 /\ q = 25 -> 60666126
      [] p = 7 /\ q = 25 -> 58051941
      [] p = 8 /\ q = 25 -> 55550098
      [] p = 9 /\ q = 25 -> 53130102
      [] p = 11 /\ q = 25 -> 48446051
      [] p = 12 /\ q = 25 -> 46146221
      [] p = 13 /\ q = 25 -> 43853779
      [] p = 14 /\ q = 25 -> 41553949
      [] p = 16 /\ q = 25 -> 36869898
      [] p = 17 /\ q = 25 -> 34449902
      [] p = 18 /\ q = 25 -> 31948059
      [] p = 19 /\ q = 25 -> 29333874
      [] p = 21 /\ q = 25 -> 23578178
      [] p = 22 /\ q = 25 -> 20267901
      [] p = 23 /\ q = 25 -> 16429940
      [] p = 24 /\ q = 25 -> 11536959
      [] p = 1 /\ q = 26 -> 78690068
      [] p = 3 /\ q = 26 -> 70142431
      [] p = 5 /\ q = 26 -> 63989936
      [] p = 7 /\ q = 26 -> 58743213
      [] p = 9 /\ q = 26 -> 53960107
      [] p = 11 /\ q = 26 -> 49424942
      [] p = 15 /\ q = 26 -> 40575058
      [] p = 17 /\ q = 26 -> 36039893
      [] p = 19 /\ q = 26 -> 31256787
      [] p = 21 /\ q = 26 -> 26010064
      [] p = 23 /\ q = 26 -> 19857569
      [] p = 25 /\ q = 26 -> 11309932
      [] p = 1 /\ q = 27 -> 78904197
      [] p = 2 /\ q = 27 -> 74206831
      [] p = 4 /\ q = 27 -> 67362457
      [] p = 5 /\ q = 27 -> 64511401
      [] p = 7 /\ q = 27 -> 59391102
      [] p = 8 /\ q = 27 -> 57021038
      [] p = 10 /\ q = 27 -> 52513057
      [] p = 11 /\ q = 27 -> 50335965
      [] p = 13 /\ q = 27 -> 46061276
      [] p = 14 /\ q = 27 -> 43938724
      [] p = 16 /\ q = 27 -> 39664035
      [] p = 17 /\ q = 27 -> 37486943
      [] p = 19 /\ q = 27 -> 32978962
      [] p = 20 /\ q = 27 -> 30608898
      [] p = 22 /\ q = 27 -> 25488599
      [] p = 23 /\ q = 27 -> 22637543
      [] p = 25 /\ q = 27 -> 15793169
      [] p = 26 /\ q = 27 -> 11095803
      [] p = 1 /\ q = 28 -> 79106605
      [] p = 3 /\ q = 28 -> 70893395
      [] p = 5 /\ q = 28 -> 65002600
      [] p = 9 /\ q = 28 -> 55462416
      [] p = 11 /\ q = 28 -> 51186813
      [] p = 13 /\ q = 28 -> 47048022
      [] p = 15 /\ q = 28 -> 42951978
      [] p = 17 /\ q = 28 -> 38813187
      [] p = 19 /\ q = 28 -> 34537584
      [] p = 23 /\ q = 28 -> 24997400
      [] p = 25 /\ q = 28 -> 19106605
      [] p = 27 /\ q = 28 -> 10893395
      [] p = 1 /\ q = 29 -> 79298325
      [] p = 2 /\ q = 29 -> 74774843
      [] p = 3 /\ q = 29 -> 71238243
      [] p = 4 /\ q = 29 -> 68198591
      [] p = 5 /\ q = 29 -> 65466362
      [] p = 6 /\ q = 29 -> 62944149
      [] p = 7 /\ q = 29 -> 60573695
      [] p = 8 /\ q = 29 -> 58316559
      [] p = 9 /\ q = 29 -> 56145485
      [] p = 10 /\ q = 29 -> 54040006
      [] p = 11 /\ q = 29 -> 51983981
      [] p = 12 /\ q = 29 -> 49964096
      [] p = 13 /\ q = 29 -> 47968886
      [] p = 14 /\ q = 29 -> 45988054
      [] p = 15 /\ q = 29 -> 44011946
      [] p = 16 /\ q = 29 -> 42031114
      [] p = 17 /\ q = 29 -> 40035904
      [] p = 18 /\ q = 29 -> 38016019
      [] p = 19 /\ q = 29 -> 35959994
      [] p = 20 /\ q = 29 -> 33854515
      [] p = 21 /\ q = 29 -> 31683441
      [] p = 22 /\ q = 29 -> 29426305
      [] p = 23 /\ q = 29 -> 27055851
      [] p = 24 /\ q = 29 -> 24533638
      [] p = 25 /\ q = 29 -> 21801409
      [] p = 26 /\ q = 29 -> 18761757
      [] p = 27 /\ q = 29 -> 15225157
      [] p = 28 /\ q = 29 -> 10701675
      [] p = 1 /\ q = 30 -> 79480265
      [] p = 7 /\ q = 30 -> 61115476
      [] p = 11 /\ q = 30 -> 52733005
      [] p = 13 /\ q = 30 -> 48831128
      [] p = 17 /\ q = 30 -> 41168872
      [] p = 19 /\ q = 30 -> 37266995
      [] p = 23 /\ q = 30 -> 28884524
      [] p = 29 /\ q = 30 -> 10519735
      [] p = 9 /\ q = 34 -> 59036243
      [] p = 25 /\ q = 34 -> 30963757
      [] p = 36 /\ q = 37 -> 9462322
      [] p = 25 /\ q = 42 -> 39509712
      [] p = 9 /\ q = 50 -> 64895910

(* The quotient dot / (norm_a * norm_b) of two parallel vectors is 1 in     *)
(* exact arithmetic; in doubles the product of the two roots may exceed    *)
(* the dot product by one bit, as sqrt(2) * sqrt(2) does, and the quotient  *)
(* is then 1 - 2^-53 * 2, whose arccos is 1.2e-6 degree.  InexactParallel  *)
(* holds the pairs of squared norms na <= nb up to 200 for which it does.  *)
InexactParallel ==
    {<<2, 2>>, <<2, 8>>, <<2, 32>>, <<2, 50>>, <<2, 98>>, <<2, 128>>,
     <<2, 200>>, <<5, 5>>, <<5, 20>>, <<5, 45>>, <<5, 80>>, <<5, 125>>,
     <<5, 180>>, <<7, 7>>, <<7, 28>>, <<7, 63>>, <<7, 112>>, <<8, 8>>,
     <<8, 32>>, <<8, 50>>, <<8, 98>>, <<8, 128>>, <<8, 200>>, <<10, 10>>,
     <<10, 40>>, <<10, 90>>, <<10, 160>>, <<15, 15>>, <<15, 60>>, <<19, 19>>,
     <<19, 76>>, <<19, 171>>, <<20, 20>>, <<20, 45>>, <<20, 80>>,
     <<20, 125>>, <<20, 180>>, <<27, 75>>, <<28, 28>>, <<28, 63>>,
     <<28, 112>>, <<32, 32>>, <<32, 50>>, <<32, 98>>, <<32, 128>>,
     <<32, 200>>, <<40, 40>>, <<40, 90>>, <<40, 160>>, <<45, 45>>,
     <<45, 80>>, <<45, 125>>, <<45, 180>>, <<50, 50>>, <<50, 128>>,
     <<50, 200>>, <<51, 51>>, <<58, 58>>, <<60, 60>>, <<63, 63>>,
     <<63, 112>>, <<66, 66>>, <<75, 75>>, <<75, 108>>, <<75, 147>>,
     <<76, 76>>, <<76, 171>>, <<77, 77>>, <<78, 78>>, <<80, 80>>,
     <<80, 125>>, <<80, 180>>, <<82, 82>>, <<87, 87>>, <<90, 160>>,
     <<94, 94>>, <<98, 128>>, <<106, 106>>, <<107, 107>>, <<109, 109>>,
     <<112, 112>>, <<113, 113>>, <<117, 117>>, <<122, 122>>, <<123, 123>>,
     <<125, 125>>, <<125, 180>>, <<128, 128>>, <<128, 200>>, <<133, 133>>,
     <<160, 160>>, <<166, 166>>, <<170, 170>>, <<180, 180>>, <<185, 185>>,
     <<200, 200>>}

ParallelDeg(na, nb) ==
    CASE na <= 200 /\ nb <= 200 ->
         IF <<IF na <= nb THEN na ELSE nb, IF na <= nb THEN nb ELSE na>> \in InexactParallel
         THEN 1 ELSE 0

(* np.degrees(np.arccos(np.clip(dot / (norm_a * norm_b), -1.0, 1.0))), for   *)
(* the squared norms na, nb > 0.  dot^2 <= na * nb, so that the clip        *)
(* changes nothing but rounding; arccos(-c) = 180 - arccos(c).              *)
ArcCosAcute(dot, na, nb) ==
    IF dot * dot = na * nb THEN ParallelDeg(na, nb)
    ELSE AcuteDeg((dot * dot) \div GCD(dot * dot, na * nb),
                  (na * nb) \div GCD(dot * dot, na * nb))

ArcCosDeg(dot, na, nb) ==
    IF dot >= 0 THEN ArcCosAcute(dot, na, nb) ELSE 180000000 - ArcCosAcute(dot, na, nb)

(* geometry.py:29-30 *)
calculate_distance(pos1_array, pos2_array) == Norm(NormSq(Sub(pos1_array, pos2_array)))

(* geometry.py:44-45 and 80-81  the fold of the angle *)
NoFold(angle) == angle

FoldAbove(angle) == IF angle > 90000000 THEN 180000000 - angle ELSE angle

FoldFrom(angle) == IF angle >= 90000000 THEN 180000000 - angle ELSE angle

(* geometry.py:32-46 *)
xpcn_of(v_x_pi, pi_normal) ==
    IF NormSq(v_x_pi) = 0 \/ NormSq(pi_normal) = 0 THEN NoValue
    ELSE FoldAbove(ArcCosDeg(Dot(v_x_pi, pi_normal), NormSq(v_x_pi), NormSq(pi_normal)))

calculate_xpcn_angle(x_pos, pi_center, pi_normal) ==
    xpcn_of(Sub(pi_center, x_pos), pi_normal)

(* geometry.py:48-59 *)
xh_pi_of(v_hx, v_hc) ==
    IF NormSq(v_hx) = 0 \/ NormSq(v_hc) = 0 THEN NoValue
    ELSE ArcCosDeg(Dot(v_hx, v_hc), NormSq(v_hx), NormSq(v_hc))

calculate_xh_picenter_angle(pi_center, x_pos, h_pos) ==
    xh_pi_of(Sub(h_pos, x_pos), Sub(h_pos, pi_center))

(* geometry.py:70-72  proj_len > 0; proj_len is the dot product divided by  *)
(* the norm of v_x_pi, which is positive here.                             *)
PointsAwayOrAcross(v_xh, v_x_pi) == Dot(v_xh, v_x_pi) >= 0

PointsToRing(v_xh, v_x_pi) == Dot(v_xh, v_x_pi) > 0

(* geometry.py:61-83 *)
theta_of(v_x_pi, v_xh, normal) ==
    IF NormSq(v_x_pi) = 0 THEN NoValue
    ELSE IF PointsToRing(v_xh, v_x_pi)
    THEN IF NormSq(normal) = 0 \/ NormSq(v_xh) = 0 THEN NoValue
         ELSE FoldFrom(ArcCosDeg(Dot(normal, v_xh), NormSq(normal), NormSq(v_xh)))
    ELSE NoValue

calculate_hudson_theta(pi_center, x_pos, h_pos, normal) ==
    theta_of(Sub(pi_center, x_pos), Sub(h_pos, x_pos), normal)

(* np.linalg.norm of a vector of squared length p / q in lowest terms, to  *)
(* the nearest 1e-6                                                         *)
NormOfQuotient(p, q) ==
    CASE p = 0 -> 0
      [] q = 1 -> Norm(p)
      [] p = 1 /\ q = 2 -> 707107
      [] p = 3 /\ q = 2 -> 1224745
      [] p = 5 /\ q = 2 -> 1581139
      [] p = 7 /\ q = 2 -> 1870829
      [] p = 9 /\ q = 2 -> 2121320
      [] p = 11 /\ q = 2 -> 2345208
      [] p = 13 /\ q = 2 -> 2549510
      [] p = 15 /\ q = 2 -> 2738613
      [] p = 17 /\ q = 2 -> 2915476
      [] p = 19 /\ q = 2 -> 3082207
      [] p = 21 /\ q = 2 -> 3240370
      [] p = 23 /\ q = 2 -> 3391165
      [] p = 25 /\ q = 2 -> 3535534
      [] p = 27 /\ q = 2 -> 3674235
      [] p = 29 /\ q = 2 -> 3807887
      [] p = 31 /\ q = 2 -> 3937004
      [] p = 33 /\ q = 2 -> 4062019
      [] p = 35 /\ q = 2 -> 4183300
      [] p = 37 /\ q = 2 -> 4301163
      [] p = 39 /\ q = 2 -> 4415880
      [] p = 41 /\ q = 2 -> 4527693
      [] p = 43 /\ q = 2 -> 4636809
      [] p = 45 /\ q = 2 -> 4743416
      [] p = 47 /\ q = 2 -> 4847680
      [] p = 49 /\ q = 2 -> 4949747
      [] p = 51 /\ q = 2 -> 5049752
      [] p = 53 /\ q = 2 -> 5147815
      [] p = 55 /\ q = 2 -> 5244044
      [] p = 57 /\ q = 2 -> 5338539
      [] p = 59 /\ q = 2 -> 5431390
      [] p = 61 /\ q = 2 -> 5522681
      [] p = 63 /\ q = 2 -> 5612486
      [] p = 65 /\ q = 2 -> 5700877
      [] p = 67 /\ q = 2 -> 5787918
      [] p = 69 /\ q = 2 -> 5873670
      [] p = 71 /\ q = 2 -> 5958188
      [] p = 73 /\ q = 2 -> 6041523
      [] p = 75 /\ q = 2 -> 6123724
      [] p = 77 /\ q = 2 -> 6204837
      [] p = 79 /\ q = 2 -> 6284903
      [] p = 81 /\ q = 2 -> 6363961
      [] p = 83 /\ q = 2 -> 6442049
      [] p = 85 /\ q = 2 -> 6519202
      [] p = 87 /\ q = 2 -> 6595453
      [] p = 89 /\ q = 2 -> 6670832
      [] p = 91 /\ q = 2 -> 6745369
      [] p = 93 /\ q = 2 -> 6819091
      [] p = 95 /\ q = 2 -> 6892024
      [] p = 97 /\ q = 2 -> 6964194
      [] p = 99 /\ q = 2 -> 7035624
      [] p = 1 /\ q = 3 -> 577350
      [] p = 2 /\ q = 3 -> 816497
      [] p = 4 /\ q = 3 -> 1154701
      [] p = 5 /\ q = 3 -> 1290994
      [] p = 7 /\ q = 3 -> 1527525
      [] p = 8 /\ q = 3 -> 1632993
      [] p = 10 /\ q = 3 -> 1825742
      [] p = 11 /\ q = 3 -> 1914854
      [] p = 13 /\ q = 3 -> 2081666
      [] p = 14 /\ q = 3 -> 2160247
      [] p = 16 /\ q = 3 -> 2309401
      [] p = 17 /\ q = 3 -> 2380476
      [] p = 19 /\ q = 3 -> 2516611
      [] p = 20 /\ q = 3 -> 2581989
      [] p = 22 /\ q = 3 -> 2708013
      [] p = 23 /\ q = 3 -> 2768875
      [] p = 25 /\ q = 3 -> 2886751
      [] p = 26 /\ q = 3 -> 2943920
      [] p = 28 /\ q = 3 -> 3055050
      [] p = 29 /\ q = 3 -> 3109126
      [] p = 31 /\ q = 3 -> 3214550
      [] p = 32 /\ q = 3 -> 3265986
      [] p = 34 /\ q = 3 -> 3366502
      [] p = 35 /\ q = 3 -> 3415650
      [] p = 37 /\ q = 3 -> 3511885
      [] p = 38 /\ q = 3 -> 3559026
      [] p = 40 /\ q = 3 -> 3651484
      [] p = 41 /\ q = 3 -> 3696846
      [] p = 43 /\ q = 3 -> 3785939
      [] p = 44 /\ q = 3 -> 3829708
      [] p = 46 /\ q = 3 -> 3915780
      [] p = 47 /\ q = 3 -> 3958114
      [] p = 49 /\ q = 3 -> 4041452
      [] p = 50 /\ q = 3 -> 4082483
      [] p = 52 /\ q = 3 -> 4163332
      [] p = 53 /\ q = 3 -> 4203173
      [] p = 55 /\ q = 3 -> 4281744
      [] p = 56 /\ q = 3 -> 4320494
      [] p = 58 /\ q = 3 -> 4396969
      [] p = 59 /\ q = 3 -> 4434712
      [] p = 61 /\ q = 3 -> 4509250
      [] p = 62 /\ q = 3 -> 4546061
      [] p = 64 /\ q = 3 -> 4618802
      [] p = 65 /\ q = 3 -> 4654747
      [] p = 1 /\ q = 4 -> 500000
      [] p = 3 /\ q = 4 -> 866025
      [] p = 5 /\ q = 4 -> 1118034
      [] p = 7 /\ q = 4 -> 1322876
      [] p = 9 /\ q = 4 -> 1500000
      [] p = 11 /\ q = 4 -> 1658312
      [] p = 13 /\ q = 4 -> 1802776
      [] p = 15 /\ q = 4 -> 1936492
      [] p = 17 /\ q = 4 -> 2061553
      [] p = 19 /\ q = 4 -> 2179449
      [] p = 21 /\ q = 4 -> 2291288
      [] p = 23 /\ q = 4 -> 2397916
      [] p = 25 /\ q = 4 -> 2500000
      [] p = 27 /\ q = 4 -> 2598076
      [] p = 29 /\ q = 4 -> 2692582
      [] p = 31 /\ q = 4 -> 2783882
      [] p = 33 /\ q = 4 -> 2872281
      [] p = 35 /\ q = 4 -> 2958040
      [] p = 37 /\ q = 4 -> 3041381
      [] p = 39 /\ q = 4 -> 3122499
      [] p = 41 /\ q = 4 -> 3201562
      [] p = 43 /\ q = 4 -> 3278719
      [] p = 45 /\ q = 4 -> 3354102
      [] p = 47 /\ q = 4 -> 3427827
      [] p = 49 /\ q = 4 -> 3500000
      [] p = 1 /\ q = 5 -> 447214
      [] p = 2 /\ q = 5 -> 632456
      [] p = 3 /\ q = 5 -> 774597
      [] p = 4 /\ q = 5 -> 894427
      [] p = 6 /\ q = 5 -> 1095445
      [] p = 7 /\ q = 5 -> 1183216
      [] p = 8 /\ q = 5 -> 1264911
      [] p = 9 /\ q = 5 -> 1341641
      [] p = 11 /\ q = 5 -> 1483240
      [] p = 12 /\ q = 5 -> 1549193
      [] p = 13 /\ q = 5 -> 1612452
      [] p = 14 /\ q = 5 -> 1673320
      [] p = 16 /\ q = 5 -> 1788854
      [] p = 17 /\ q = 5 -> 1843909
      [] p = 18 /\ q = 5 -> 1897367
      [] p = 19 /\ q = 5 -> 1949359
      [] p = 21 /\ q = 5 -> 2049390
      [] p = 22 /\ q = 5 -> 2097618
      [] p = 23 /\ q = 5 -> 2144761
      [] p = 24 /\ q = 5 -> 2190890
      [] p = 26 /\ q = 5 -> 2280351
      [] p = 27 /\ q = 5 -> 2323790
      [] p = 28 /\ q = 5 -> 2366432
      [] p = 29 /\ q = 5 -> 2408319
      [] p = 31 /\ q = 5 -> 2489980
      [] p = 32 /\ q = 5 -> 2529822
      [] p = 33 /\ q = 5 -> 2569047
      [] p = 34 /\ q = 5 -> 2607681
      [] p = 36 /\ q = 5 -> 2683282
      [] p = 37 /\ q = 5 -> 2720294
      [] p = 38 /\ q = 5 -> 2756810
      [] p = 39 /\ q = 5 -> 2792848
      [] p = 1 /\ q = 6 -> 408248
      [] p = 5 /\ q = 6 -> 912871
      [] p = 7 /\ q = 6 -> 1080123
      [] p = 11 /\ q = 6 -> 1354006
      [] p = 13 /\ q = 6 -> 1471960
      [] p = 17 /\ q = 6 -> 1683251
      [] p = 19 /\ q = 6 -> 1779513
      [] p = 23 /\ q = 6 -> 1957890
      [] p = 25 /\ q = 6 -> 2041241
      [] p = 29 /\ q = 6 -> 2198484
      [] p = 31 /\ q = 6 -> 2273030
      [] p = 1 /\ q = 7 -> 377964
      [] p = 2 /\ q = 7 -> 534522
      [] p = 3 /\ q = 7 -> 654654
      [] p = 4 /\ q = 7 -> 755929
      [] p = 5 /\ q = 7 -> 845154
      [] p = 6 /\ q = 7 -> 925820
      [] p = 8 /\ q = 7 -> 1069045
      [] p = 9 /\ q = 7 -> 1133893
      [] p = 10 /\ q = 7 -> 1195229
      [] p = 11 /\ q = 7 -> 1253566
      [] p = 12 /\ q = 7 -> 1309307
      [] p = 13 /\ q = 7 -> 1362770
      [] p = 15 /\ q = 7 -> 1463850
      [] p = 16 /\ q = 7 -> 1511858
      [] p = 17 /\ q = 7 -> 1558387
      [] p = 18 /\ q = 7 -> 1603567
      [] p = 19 /\ q = 7 -> 1647509
      [] p = 20 /\ q = 7 -> 1690309
      [] p = 22 /\ q = 7 -> 1772811
      [] p = 23 /\ q = 7 -> 1812654
      [] p = 24 /\ q = 7 -> 1851640
      [] p = 25 /\ q = 7 -> 1889822
      [] p = 26 /\ q = 7 -> 1927248
      [] p = 27 /\ q = 7 -> 1963961
      [] p = 1 /\ q = 8 -> 353553
      [] p = 3 /\ q = 8 -> 612372
      [] p = 5 /\ q = 8 -> 790569
      [] p = 7 /\ q = 8 -> 935414
      [] p = 9 /\ q = 8 -> 1060660
      [] p = 11 /\ q = 8 -> 1172604
      [] p = 13 /\ q = 8 -> 1274755
      [] p = 15 /\ q = 8 -> 1369306
      [] p = 17 /\ q = 8 -> 1457738
      [] p = 19 /\ q = 8 -> 1541104
      [] p = 21 /\ q = 8 -> 1620185
      [] p = 23 /\ q = 8 -> 1695582
      [] p = 25 /\ q = 8 -> 1767767
      [] p = 1 /\ q = 9 -> 333333
      [] p = 2 /\ q = 9 -> 471405
      [] p = 4 /\ q = 9 -> 666667
      [] p = 5 /\ q = 9 -> 745356
      [] p = 7 /\ q = 9 -> 881917
      [] p = 8 /\ q = 9 -> 942809
      [] p = 10 /\ q = 9 -> 1054093
      [] p = 11 /\ q = 9 -> 1105542
      [] p = 13 /\ q = 9 -> 1201850
      [] p = 14 /\ q = 9 -> 1247219
      [] p = 16 /\ q = 9 -> 1333333
      [] p = 17 /\ q = 9 -> 1374369
      [] p = 19 /\ q = 9 -> 1452966
      [] p = 20 /\ q = 9 -> 1490712
      [] p = 22 /\ q = 9 -> 1563472
      [] p = 1 /\ q = 10 -> 316228
      [] p = 3 /\ q = 10 -> 547723
      [] p = 7 /\ q = 10 -> 836660
      [] p = 9 /\ q = 10 -> 948683
      [] p = 11 /\ q = 10 -> 1048809
      [] p = 13 /\ q = 10 -> 1140175
      [] p = 17 /\ q = 10 -> 1303840
      [] p = 19 /\ q = 10 -> 1378405
      [] p = 1 /\ q = 11 -> 301511
      [] p = 2 /\ q = 11 -> 426401
      [] p = 3 /\ q = 11 -> 522233
      [] p = 4 /\ q = 11 -> 603023
      [] p = 5 /\ q = 11 -> 674200
      [] p = 6 /\ q = 11 -> 738549
      [] p = 7 /\ q = 11 -> 797724
      [] p = 8 /\ q = 11 -> 852803
      [] p = 9 /\ q = 11 -> 904534
      [] p = 10 /\ q = 11 -> 953463
      [] p = 12 /\ q = 11 -> 1044466
      [] p = 13 /\ q = 11 -> 1087115
      [] p = 14 /\ q = 11 -> 1128152
      [] p = 15 /\ q = 11 -> 1167748
      [] p = 16 /\ q = 11 -> 1206045
      [] p = 17 /\ q = 11 -> 1243163
      [] p = 18 /\ q = 11 -> 1279204
      [] p = 1 /\ q = 12 -> 288675
      [] p = 5 /\ q = 12 -> 645497
      [] p = 7 /\ q = 12 -> 763763
      [] p = 11 /\ q = 12 -> 957427
      [] p = 13 /\ q = 12 -> 1040833
      [] p = 1 /\ q = 13 -> 277350
      [] p = 2 /\ q = 13 -> 392232
      [] p = 3 /\ q = 13 -> 480384
      [] p = 4 /\ q = 13 -> 554700
      [] p = 5 /\ q = 13 -> 620174
      [] p = 6 /\ q = 13 -> 679366
      [] p = 7 /\ q = 13 -> 733799
      [] p = 8 /\ q = 13 -> 784465
      [] p = 9 /\ q = 13 -> 832050
      [] p = 10 /\ q = 13 -> 877058
      [] p = 11 /\ q = 13 -> 919866
      [] p = 12 /\ q = 13 -> 960769
      [] p = 14 /\ q = 13 -> 1037749
      [] p = 15 /\ q = 13 -> 1074172
      [] p = 1 /\ q = 14 -> 267261
      [] p = 3 /\ q = 14 -> 462910
      [] p = 5 /\ q = 14 -> 597614
      [] p = 9 /\ q = 14 -> 801784
      [] p = 11 /\ q = 14 -> 886405
      [] p = 13 /\ q = 14 -> 963624
      [] p = 1 /\ q = 15 -> 258199
      [] p = 2 /\ q = 15 -> 365148
      [] p = 4 /\ q = 15 -> 516398
      [] p = 7 /\ q = 15 -> 683130
      [] p = 8 /\ q = 15 -> 730297
      [] p = 11 /\ q = 15 -> 856349
      [] p = 13 /\ q = 15 -> 930949
      [] p = 1 /\ q = 16 -> 250000
      [] p = 3 /\ q = 16 -> 433013
      [] p = 5 /\ q = 16 -> 559017
      [] p = 7 /\ q = 16 -> 661438
      [] p = 9 /\ q = 16 -> 750000
      [] p = 11 /\ q = 16 -> 829156
      [] p = 1 /\ q = 17 -> 242536
      [] p = 2 /\ q = 17 -> 342997
      [] p = 3 /\ q = 17 -> 420084
      [] p = 4 /\ q = 17 -> 485071
      [] p = 5 /\ q = 17 -> 542326
      [] p = 6 /\ q = 17 -> 594089
      [] p = 7 /\ q = 17 -> 641689
      [] p = 8 /\ q = 17 -> 685994
      [] p = 9 /\ q = 17 -> 727607
      [] p = 10 /\ q = 17 -> 766965
      [] p = 11 /\ q = 17 -> 804400
      [] p = 1 /\ q = 18 -> 235702
      [] p = 5 /\ q = 18 -> 527046
      [] p = 7 /\ q = 18 -> 623610
      [] p = 11 /\ q = 18 -> 781736
      [] p = 1 /\ q = 19 -> 229416
      [] p = 2 /\ q = 19 -> 324443
      [] p = 3 /\ q = 19 -> 397360
      [] p = 4 /\ q = 19 -> 458831
      [] p = 5 /\ q = 19 -> 512989
      [] p = 6 /\ q = 19 -> 561951
      [] p = 7 /\ q = 19 -> 606977
      [] p = 8 /\ q = 19 -> 648886
      [] p = 9 /\ q = 19 -> 688247
      [] p = 10 /\ q = 19 -> 725476
      [] p = 1 /\ q = 20 -> 223607
      [] p = 3 /\ q = 20 -> 387298
      [] p = 7 /\ q = 20 -> 591608
      [] p = 9 /\ q = 20 -> 670820
      [] p = 1 /\ q = 21 -> 218218
      [] p = 2 /\ q = 21 -> 308607
      [] p = 4 /\ q = 21 -> 436436
      [] p = 5 /\ q = 21 -> 487950
      [] p = 8 /\ q = 21 -> 617213
      [] p = 1 /\ q = 22 -> 213201
      [] p = 3 /\ q = 22 -> 369274
      [] p = 5 /\ q = 22 -> 476731
      [] p = 7 /\ q = 22 -> 564076
      [] p = 9 /\ q = 22 -> 639602
      [] p = 1 /\ q = 23 -> 208514
      [] p = 2 /\ q = 23 -> 294884
      [] p = 3 /\ q = 23 -> 361158
      [] p = 4 /\ q = 23 -> 417029
      [] p = 5 /\ q = 23 -> 466252
      [] p = 6 /\ q = 23 -> 510754
      [] p = 7 /\ q = 23 -> 551677
      [] p = 8 /\ q = 23 -> 589768
      [] p = 1 /\ q = 24 -> 204124
      [] p = 5 /\ q = 24 -> 456435
      [] p = 7 /\ q = 24 -> 540062
      [] p = 1 /\ q = 25 -> 200000
      [] p = 2 /\ q = 25 -> 282843
      [] p = 3 /\ q = 25 -> 346410
      [] p = 4 /\ q = 25 -> 400000
      [] p = 6 /\ q = 25 -> 489898
      [] p = 7 /\ q = 25 -> 529150
      [] p = 8 /\ q = 25 -> 565685
      [] p = 1 /\ q = 26 -> 196116
      [] p = 3 /\ q = 26 -> 339683
      [] p = 5 /\ q = 26 -> 438529
      [] p = 7 /\ q = 26 -> 518875
      [] p = 1 /\ q = 27 -> 192450
      [] p = 2 /\ q = 27 -> 272166
      [] p = 4 /\ q = 27 -> 384900
      [] p = 5 /\ q = 27 -> 430331
      [] p = 7 /\ q = 27 -> 509175
      [] p = 1 /\ q = 28 -> 188982
      [] p = 3 /\ q = 28 -> 327327
      [] p = 5 /\ q = 28 -> 422577
      [] p = 1 /\ q = 29 -> 185695
      [] p = 2 /\ q = 29 -> 262613
      [] p = 3 /\ q = 29 -> 321634
      [] p = 4 /\ q = 29 -> 371391
      [] p = 5 /\ q = 29 -> 415227
      [] p = 6 /\ q = 29 -> 454859
      [] p = 1 /\ q = 30 -> 182574
      [] p = 1 /\ q = 31 -> 179605
      [] p = 2 /\ q = 31 -> 254000
      [] p = 3 /\ q = 31 -> 311086
      [] p = 4 /\ q = 31 -> 359211
      [] p = 5 /\ q = 31 -> 401610
      [] p = 6 /\ q = 31 -> 439941
      [] p = 1 /\ q = 32 -> 176777
      [] p = 3 /\ q = 32 -> 306186
      [] p = 5 /\ q = 32 -> 395285
      [] p = 1 /\ q = 33 -> 174078
      [] p = 2 /\ q = 33 -> 246183
      [] p = 4 /\ q = 33 -> 348155
      [] p = 5 /\ q = 33 -> 389249
      [] p = 1 /\ q = 34 -> 171499
      [] p = 3 /\ q = 34 -> 297044
      [] p = 5 /\ q = 34 -> 383482
      [] p = 1 /\ q = 35 -> 169031
      [] p = 2 /\ q = 35 -> 239046
      [] p = 3 /\ q = 35 -> 292770
      [] p = 4 /\ q = 35 -> 338062
      [] p = 1 /\ q = 36 -> 166667
      [] p = 5 /\ q = 36 -> 372678
      [] p = 1 /\ q = 37 -> 164399
      [] p = 2 /\ q = 37 -> 232495
      [] p = 3 /\ q = 37 -> 284747
      [] p = 4 /\ q = 37 -> 328798
      [] p = 5 /\ q = 37 -> 367607
      [] p = 1 /\ q = 38 -> 162221
      [] p = 3 /\ q = 38 -> 280976
      [] p = 5 /\ q = 38 -> 362738
      [] p = 1 /\ q = 39 -> 160128
      [] p = 2 /\ q = 39 -> 226455
      [] p = 4 /\ q = 39 -> 320256
      [] p = 5 /\ q = 39 -> 358057
      [] p = 1 /\ q = 40 -> 158114
      [] p = 3 /\ q = 40 -> 273861
      [] p = 1 /\ q = 41 -> 156174
      [] p = 2 /\ q = 41 -> 220863
      [] p = 3 /\ q = 41 -> 270501
      [] p = 4 /\ q = 41 -> 312348
      [] p = 1 /\ q = 42 -> 154303
      [] p = 1 /\ q = 43 -> 152499
      [] p = 2 /\ q = 43 -> 215666
      [] p = 3 /\ q = 43 -> 264135
      [] p = 4 /\ q = 43 -> 304997
      [] p = 1 /\ q = 44 -> 150756
      [] p = 3 /\ q = 44 -> 261116
      [] p = 1 /\ q = 45 -> 149071
      [] p = 2 /\ q = 45 -> 210819
      [] p = 4 /\ q = 45 -> 298142
      [] p = 1 /\ q = 46 -> 147442
      [] p = 3 /\ q = 46 -> 255377
      [] p = 1 /\ q = 47 -> 145865
      [] p = 2 /\ q = 47 -> 206284
      [] p = 3 /\ q = 47 -> 252646
      [] p = 4 /\ q = 47 -> 291730
      [] p = 1 /\ q = 48 -> 144338
      [] p = 1 /\ q = 49 -> 142857
      [] p = 2 /\ q = 49 -> 202031
      [] p = 3 /\ q = 49 -> 247436
      [] p = 4 /\ q = 49 -> 285714
      [] p = 1 /\ q = 50 -> 141421
      [] p = 3 /\ q = 50 -> 244949
      [] p = 1 /\ q = 51 -> 140028
      [] p = 2 /\ q = 51 -> 198030
      [] p = 1 /\ q = 52 -> 138675
      [] p = 3 /\ q = 52 -> 240192
      [] p = 1 /\ q = 53 -> 137361
      [] p = 2 /\ q = 53 -> 194257
      [] p = 3 /\ q = 53 -> 237915
      [] p = 1 /\ q = 54 -> 136083
      [] p = 1 /\ q = 55 -> 134840
      [] p = 2 /\ q = 55 -> 190693
      [] p = 3 /\ q = 55 -> 233550
      [] p = 1 /\ q = 56 -> 133631
      [] p = 3 /\ q = 56 -> 231455
      [] p = 1 /\ q = 57 -> 132453
      [] p = 2 /\ q = 57 -> 187317
      [] p = 1 /\ q = 58 -> 131306
      [] p = 3 /\ q = 58 -> 227429
      [] p = 1 /\ q = 59 -> 130189
      [] p = 2 /\ q = 59 -> 184115
      [] p = 3 /\ q = 59 -> 225494
      [] p = 1 /\ q = 60 -> 129099
      [] p = 1 /\ q = 61 -> 128037
      [] p = 2 /\ q = 61 -> 181071
      [] p = 3 /\ q = 61 -> 221766
      [] p = 1 /\ q = 62 -> 127000
      [] p = 3 /\ q = 62 -> 219971
      [] p = 1 /\ q = 63 -> 125988
      [] p = 2 /\ q = 63 -> 178174
      [] p = 1 /\ q = 64 -> 125000
      [] p = 3 /\ q = 64 -> 216506
      [] p = 1 /\ q = 65 -> 124035
      [] p = 2 /\ q = 65 -> 175412
      [] p = 3 /\ q = 65 -> 214834
      [] p = 1 /\ q = 66 -> 123091
      [] p = 1 /\ q = 67 -> 122169
      [] p = 2 /\ q = 67 -> 172774
      [] p = 1 /\ q = 68 -> 121268
      [] p = 1 /\ q = 69 -> 120386
      [] p = 2 /\ q = 69 -> 170251
      [] p = 1 /\ q = 70 -> 119523
      [] p = 1 /\ q = 71 -> 118678
      [] p = 2 /\ q = 71 -> 167836
      [] p = 1 /\ q = 72 -> 117851
      [] p = 1 /\ q = 73 -> 117041
      [] p = 2 /\ q = 73 -> 165521
      [] p = 1 /\ q = 74 -> 116248
      [] p = 1 /\ q = 75 -> 115470
      [] p = 2 /\ q = 75 -> 163299
      [] p = 1 /\ q = 76 -> 114708
      [] p = 1 /\ q = 77 -> 113961
      [] p = 2 /\ q = 77 -> 161165
      [] p = 1 /\ q = 78 -> 113228
      [] p = 1 /\ q = 79 -> 112509
      [] p = 2 /\ q = 79 -> 159111
      [] p = 1 /\ q = 80 -> 111803
      [] p = 1 /\ q = 81 -> 111111
      [] p = 2 /\ q = 81 -> 157135
      [] p = 1 /\ q = 82 -> 110432
      [] p = 1 /\ q = 83 -> 109764
      [] p = 2 /\ q = 83 -> 155230
      [] p = 1 /\ q = 84 -> 109109
      [] p = 1 /\ q = 85 -> 108465
      [] p = 2 /\ q = 85 -> 153393
      [] p = 1 /\ q = 86 -> 107833
      [] p = 1 /\ q = 87 -> 107211
      [] p = 2 /\ q = 87 -> 151620
      [] p = 1 /\ q = 88 -> 106600
      [] p = 1 /\ q = 89 -> 106000
      [] p = 2 /\ q = 89 -> 149906
      [] p = 1 /\ q = 90 -> 105409
      [] p = 1 /\ q = 91 -> 104828
      [] p = 2 /\ q = 91 -> 148250
      [] p = 1 /\ q = 92 -> 104257
      [] p = 1 /\ q = 93 -> 103695
      [] p = 2 /\ q = 93 -> 146647
      [] p = 1 /\ q = 94 -> 103142
      [] p = 1 /\ q = 95 -> 102598
      [] p = 2 /\ q = 95 -> 145095
      [] p = 1 /\ q = 96 -> 102062
      [] p = 1 /\ q = 97 -> 101535
      [] p = 2 /\ q = 97 -> 143592
      [] p = 1 /\ q = 98 -> 101015
      [] p = 1 /\ q = 99 -> 100504
      [] p = 2 /\ q = 99 -> 142134
      [] p = 1 /\ q = 100 -> 100000
      [] p = 1 /\ q = 101 -> 99504
      [] p = 1 /\ q = 102 -> 99015
      [] p = 1 /\ q = 103 -> 98533
      [] p = 1 /\ q = 104 -> 98058
      [] p = 1 /\ q = 105 -> 97590
      [] p = 1 /\ q = 106 -> 97129
      [] p = 1 /\ q = 107 -> 96674
      [] p = 1 /\ q = 108 -> 96225
      [] p = 1 /\ q = 109 -> 95783
      [] p = 1 /\ q = 110 -> 95346
      [] p = 1 /\ q = 111 -> 94916
      [] p = 1 /\ q = 112 -> 94491
      [] p = 1 /\ q = 113 -> 94072
      [] p = 1 /\ q = 114 -> 93659
      [] p = 1 /\ q = 115 -> 93250
      [] p = 1 /\ q = 116 -> 92848
      [] p = 1 /\ q = 117 -> 92450
      [] p = 1 /\ q = 118 -> 92057
      [] p = 1 /\ q = 119 -> 91670
      [] p = 1 /\ q = 120 -> 91287
      [] p = 1 /\ q = 121 -> 90909
      [] p = 1 /\ q = 122 -> 90536
      [] p = 1 /\ q = 123 -> 90167
      [] p = 1 /\ q = 124 -> 89803
      [] p = 1 /\ q = 125 -> 89443
      [] p = 1 /\ q = 126 -> 89087
      [] p = 1 /\ q = 127 -> 88736
      [] p = 1 /\ q = 128 -> 88388
      [] p = 1 /\ q = 129 -> 88045
      [] p = 1 /\ q = 130 -> 87706
      [] p = 1 /\ q = 131 -> 87370
      [] p = 1 /\ q = 132 -> 87039
      [] p = 1 /\ q = 133 -> 86711
      [] p = 1 /\ q = 134 -> 86387
      [] p = 1 /\ q = 135 -> 86066
      [] p = 1 /\ q = 136 -> 85749
      [] p = 1 /\ q = 137 -> 85436
      [] p = 1 /\ q = 138 -> 85126
      [] p = 1 /\ q = 139 -> 84819
      [] p = 1 /\ q = 140 -> 84515
      [] p = 1 /\ q = 141 -> 84215
      [] p = 1 /\ q = 142 -> 83918
      [] p = 1 /\ q = 143 -> 83624
      [] p = 1 /\ q = 144 -> 83333
      [] p = 1 /\ q = 145 -> 83045
      [] p = 1 /\ q = 146 -> 82761
      [] p = 1 /\ q = 147 -> 82479
      [] p = 1 /\ q = 148 -> 82199
      [] p = 1 /\ q = 149 -> 81923
      [] p = 1 /\ q = 150 -> 81650
      [] p = 1 /\ q = 151 -> 81379
      [] p = 1 /\ q = 152 -> 81111
      [] p = 1 /\ q = 153 -> 80845
      [] p = 1 /\ q = 154 -> 80582
      [] p = 1 /\ q = 155 -> 80322
      [] p = 1 /\ q = 156 -> 80064
      [] p = 1 /\ q = 157 -> 79809
      [] p = 1 /\ q = 158 -> 79556
      [] p = 1 /\ q = 159 -> 79305
      [] p = 1 /\ q = 160 -> 79057
      [] p = 1 /\ q = 161 -> 78811
      [] p = 1 /\ q = 162 -> 78567
      [] p = 1 /\ q = 163 -> 78326
      [] p = 1 /\ q = 164 -> 78087
      [] p = 1 /\ q = 165 -> 77850
      [] p = 1 /\ q = 166 -> 77615
      [] p = 1 /\ q = 167 -> 77382
      [] p = 1 /\ q = 168 -> 77152
      [] p = 1 /\ q = 169 -> 76923
      [] p = 1 /\ q = 170 -> 76696
      [] p = 1 /\ q = 171 -> 76472
      [] p = 1 /\ q = 172 -> 76249
      [] p = 1 /\ q = 173 -> 76029
      [] p = 1 /\ q = 174 -> 75810
      [] p = 1 /\ q = 175 -> 75593
      [] p = 1 /\ q = 176 -> 75378
      [] p = 1 /\ q = 177 -> 75165
      [] p = 1 /\ q = 178 -> 74953
      [] p = 1 /\ q = 179 -> 74744
      [] p = 1 /\ q = 180 -> 74536
      [] p = 1 /\ q = 181 -> 74329
      [] p = 1 /\ q = 182 -> 74125
      [] p = 1 /\ q = 183 -> 73922
      [] p = 1 /\ q = 184 -> 73721
      [] p = 1 /\ q = 185 -> 73521
      [] p = 1 /\ q = 186 -> 73324
      [] p = 1 /\ q = 187 -> 73127
      [] p = 1 /\ q = 188 -> 72932
      [] p = 1 /\ q = 189 -> 72739
      [] p = 1 /\ q = 190 -> 72548
      [] p = 1 /\ q = 191 -> 72357
      [] p = 1 /\ q = 192 -> 72169
      [] p = 1 /\ q = 193 -> 71982
      [] p = 1 /\ q = 194 -> 71796
      [] p = 1 /\ q = 195 -> 71611
      [] p = 1 /\ q = 196 -> 71429
      [] p = 1 /\ q = 197 -> 71247
      [] p = 1 /\ q = 198 -> 71067
      [] p = 1 /\ q = 199 -> 70888
      [] p = 1 /\ q = 200 -> 70711

(* geometry.py:85-93.  With v = pi_center - x_pos and t = normal.v /         *)
(* normal.normal, the projection point minus the center is t * normal - v,  *)
(* of squared length (v.v * normal.normal - (normal.v)^2) / normal.normal;  *)
(* the distance is its root.                                               *)
proj_of(normal, v) ==
    IF NormSq(normal) = 0 THEN NoValue
    ELSE LET num == NormSq(v) * NormSq(normal) - Dot(normal, v) * Dot(normal, v)
             den == NormSq(normal)
         IN  NormOfQuotient(num \div GCD(num, den), den \div GCD(num, den))

calculate_projection_dist(normal, pi_center, x_pos) ==
    proj_of(normal, Sub(pi_center, x_pos))

----------------------------------------------------------------------------
(* residue_ss.py *)

(* One annotation: [ok, chain, start, end, class]; ok = FALSE is an          *)
(* annotation whose fields cannot be read (the except branch).  start and  *)
(* end are the seqid.num of the two ends: NoNum where the residue id       *)
(* carries no number, which is read as None without raising and goes into  *)
(* the index as it is (residue_ss.py:34-35, 47).                           *)
helix_code_swapped(h_class) ==
    IF h_class = 5 THEN "I" ELSE IF h_class = 3 THEN "G" ELSE "H"

helix_code(h_class) ==
    IF h_class = 5 THEN "G" ELSE IF h_class = 3 THEN "I" ELSE "H"

RECURSIVE add_ranges(_, _, _, _)
add_ranges(ss_index, annots, is_helix, uid) ==
    IF annots = <<>> THEN [index |-> ss_index, next |-> uid]
    ELSE LET a == Head(annots)
         IN  IF ~a.ok THEN add_ranges(ss_index, Tail(annots), is_helix, uid)
             ELSE add_ranges(
                    Append(ss_index,
                           [chain |-> a.chain, start |-> a.start, end |-> a.end,
                            type |-> IF is_helix THEN helix_code(a.class) ELSE "E",
                            uid |-> uid]),
                    Tail(annots), is_helix, uid + 1)

(* The index is the sequence of all regions in emission order; a chain's    *)
(* list is the subsequence of the regions of that chain.                   *)
build_index(st) ==
    LET h == add_ranges(<<>>, st.helices, TRUE, 1)
    IN  add_ranges(h.index, Flatten(st.sheets), FALSE, h.next).index

get_info_last(chain_name, res_seq_num, ss_index) ==
    LET regions == SelectSeq(ss_index, LAMBDA r : r.chain = chain_name)
        hit == SelectSeq(regions,
                         LAMBDA r : /\ r.start # NoNum /\ r.end # NoNum
                                    /\ res_seq_num # NoNum
                                    /\ r.start <= res_seq_num /\ res_seq_num <= r.end)
    IN  IF hit = <<>> THEN [type |-> "C", uid |-> -1]
        ELSE [type |-> hit[Len(hit)].type, uid |-> hit[Len(hit)].uid]

(* What a query of the index gives when a comparison of residue_ss.py:80    *)
(* raises TypeError, which nothing in get_info catches                     *)
TypeErrorRaised == [type |-> "TypeError", uid |-> -1]

(* residue_ss.py:79-83  the loop over the regions of the chain.  The        *)
(* chained comparison start_num <= res_seq_num <= end_num compares the     *)
(* start first, and the end only when the start is not above the number;   *)
(* a comparison with None raises TypeError.                                *)
RECURSIVE scan_regions(_, _)
scan_regions(regions, res_seq_num) ==
    IF regions = <<>> THEN [type |-> "C", uid |-> -1]
    ELSE LET r == Head(regions)
         IN  IF r.start = NoNum \/ res_seq_num = NoNum THEN TypeErrorRaised
             ELSE IF ~(r.start <= res_seq_num)
             THEN scan_regions(Tail(regions), res_seq_num)
             ELSE IF r.end = NoNum THEN TypeErrorRaised
             ELSE IF res_seq_num <= r.end THEN [type |-> r.type, uid |-> r.uid]
             ELSE scan_regions(Tail(regions), res_seq_num)

(* residue_ss.py:68-83.  A chain that is no key of the index answers        *)
(* ('C', -1) before any comparison.                                        *)
get_info(chain_name, res_seq_num, ss_index) ==
    LET regions == SelectSeq(ss_index, LAMBDA r : r.chain = chain_name)
    IN  IF regions = <<>> THEN [type |-> "C", uid |-> -1]
        ELSE scan_regions(regions, res_seq_num)

----------------------------------------------------------------------------
(* core.py: _detect_residue *)

(* A filter argument is None or a list: [none, items].  Python's truth      *)
(* value of it: a list that is not empty.                                  *)
Truthy(f) == ~f.none /\ f.items # {}

(* gemmi.NeighborSearch.find_atoms(pos, alt, radius): the atoms within      *)
(* radius of the query point whose altloc is compatible with alt.          *)
AltMatch(a, alt) == a = "" \/ alt = "" \/ a = alt

find_atoms_any_alt(marks, alt, radius) ==
    SelectSeq(marks, LAMBDA m : m.dist <= radius)

find_atoms(marks, alt, radius) ==
    SelectSeq(marks, LAMBDA m : m.dist <= radius /\ AltMatch(m.altloc, alt))

(* core.py:90  pi_atoms = [atom for atom in residue if atom.name in target_atoms] *)
pi_atoms(residue, target_atoms) ==
    SelectSeq(residue.atoms, LAMBDA a : a.name \in target_atoms)

(* core.py:91  the residue qualifies for the definition *)
QualifiesBroken(residue, target_atoms) ==
    Len(pi_atoms(residue, target_atoms)) >= Cardinality(target_atoms)

Qualifies(residue, target_atoms) ==
    Len(pi_atoms(residue, target_atoms)) = Cardinality(target_atoms)

(* core.py:133-137 *)
PlevinNonStrict(dist_x_pi, xh_pi_angle, xpcn_angle) ==
    IF dist_x_pi <= DIST_PLEVIN_MAX
       /\ xh_pi_angle >= XH_PI_ANGLE_MIN
       /\ xpcn_angle <= XPCN_ANGLE_MAX
    THEN 1 ELSE 0

PlevinHudsonBound(dist_x_pi, xh_pi_angle, xpcn_angle) ==
    IF dist_x_pi <= DIST_HUDSON_MAX
       /\ xh_pi_angle > XH_PI_ANGLE_MIN
       /\ xpcn_angle < XPCN_ANGLE_MAX
    THEN 1 ELSE 0

Plevin(dist_x_pi, xh_pi_angle, xpcn_angle) ==
    IF dist_x_pi < DIST_PLEVIN_MAX
       /\ xh_pi_angle > XH_PI_ANGLE_MIN
       /\ xpcn_angle < XPCN_ANGLE_MAX
    THEN 1 ELSE 0

(* core.py:139-142 *)
ProjThresholdSwapped(mode, res_name) ==
    IF mode = "trpA" THEN PROJ_THRESHOLD_6RING
    ELSE IF res_name = "HIS" THEN PROJ_THRESHOLD_6RING
    ELSE IF res_name \in {"TRP", "TYR", "PHE"} THEN PROJ_THRESHOLD_5RING
    ELSE NoValue

ProjThreshold(mode, res_name) ==
    IF mode = "trpA" THEN PROJ_THRESHOLD_5RING
    ELSE IF res_name = "HIS" THEN PROJ_THRESHOLD_5RING
    ELSE IF res_name \in {"TRP", "TYR", "PHE"} THEN PROJ_THRESHOLD_6RING
    ELSE NoValue

(* core.py:144-152; proj is calculate_projection_dist's value for the X atom *)
Hudson(proj_threshold, theta, dist_x_pi, proj) ==
    IF proj_threshold # NoValue
       /\ theta <= THETA_MAX
       /\ dist_x_pi <= DIST_HUDSON_MAX
       /\ proj # NoValue
       /\ proj <= proj_threshold
    THEN 1 ELSE 0

(* core.py:145-147  proj_dist stays None when there is no threshold *)
ProjDist(proj_threshold, proj) ==
    IF proj_threshold # NoValue THEN proj ELSE NoValue

(* core.py:160-166.  On the same chain the subtraction of core.py:162       *)
(* raises when a residue number is None, and the except branch gives -1.   *)
SeqSepSigned(pi_chain, pi_num, x_chain, x_num) ==
    IF pi_chain = x_chain
    THEN IF pi_num = NoNum \/ x_num = NoNum THEN -1 ELSE pi_num - x_num
    ELSE -1

SeqSep(pi_chain, pi_num, x_chain, x_num) ==
    IF pi_chain = x_chain
    THEN IF pi_num = NoNum \/ x_num = NoNum THEN -1 ELSE Abs(pi_num - x_num)
    ELSE -1

(* core.py:168-170 *)
Remark(res_name, mode) ==
    IF res_name = "TRP" THEN (IF mode = "main" THEN "6-ring" ELSE "5-ring") ELSE ""

(* core.py:130  the triple is dropped when an angle has no value *)
AnglesIgnored(x, h) == TRUE

AnglesDefined(x, h) ==
    h.xh_pi # NoValue /\ h.theta # NoValue /\ x.xpcn # NoValue

(* Python's round(total / n, 2) of core.py:204, for a sum of B-factors in    *)
(* 1e-2 units.  The B-factors of the model are multiples of 0.25, so that   *)
(* the sum is exact and a quotient half-way between two values is half-way  *)
(* as a double too, which round() takes to the even one.                   *)
round_mean(total, n) ==
    LET lo == total \div n
        r  == total % n
    IN  IF 2 * r < n THEN lo
        ELSE IF 2 * r > n THEN lo + 1
        ELSE IF lo % 2 = 0 THEN lo ELSE lo + 1

(* geometry.py:9-27  the center and the mean B-factor of the pi-system; the *)
(* center of the atoms is a datum of the residue, as the normal is behind   *)
(* the values of the marks.                                                *)
get_pi_info(residue, mode, atoms) ==
    [pi_center |-> residue.center[mode],
     b_sum |-> SeqSum([i \in DOMAIN atoms |-> atoms[i].b_iso]),
     b_count |-> Len(atoms)]

TargetAtomsIn(residue, mode) ==
    IF mode = "trpA" THEN TRP_A_ATOMS[residue.name] ELSE RING_ATOMS[residue.name]

(* np.round(array, 3) of a coordinate in 1e-6 Angstrom, of either sign *)
RoundCoord(c) == IF c < 0 THEN -Round3(-c) ELSE Round3(c)

(* core.py:132-154  the locals of one triple whose angles are defined *)
Evaluate(model_id, chain_name, residue, mode, x, h) ==
    LET plevin == Plevin(x.dist, h.xh_pi, x.xpcn)
        pi == get_pi_info(residue, mode, pi_atoms(residue, TargetAtomsIn(residue, mode)))
        proj_threshold == ProjThreshold(mode, residue.name)
        hudson == Hudson(proj_threshold, h.theta, x.dist, x.proj)
    IN  [model |-> model_id, pi_chain |-> chain_name, pi_id |-> residue.num,
         pi_res |-> residue.name, mode |-> mode,
         X_chain |-> x.chain, X_id |-> x.res_num, X_atom |-> x.atom,
         H_atom |-> h.atom,
         dist_x_pi |-> x.dist, xh_pi_angle |-> h.xh_pi, xpcn_angle |-> x.xpcn,
         theta |-> h.theta, proj |-> x.proj,
         proj_threshold |-> proj_threshold,
         proj_dist |-> ProjDist(proj_threshold, x.proj),
         pi_center |-> pi.pi_center, pi_b_sum |-> pi.b_sum, pi_b_count |-> pi.b_count,
         plevin |-> plevin, hudson |-> hudson]

(* core.py:154  if plevin == 0 and hudson == 0: continue *)
KeepsAll(e) == TRUE

Reported(e) == ~(e.plevin = 0 /\ e.hudson = 0)

(* core.py:156-217  the record of one reported triple *)
Hit(pdb_name, resolution, ss_index, x, e) ==
    LET pi_ss == get_info(e.pi_chain, e.pi_id, ss_index)
        x_ss  == get_info(e.X_chain, e.X_id, ss_index)
    IN  [pdb |-> pdb_name, model |-> e.model, resolution |-> resolution,
         pi_chain |-> e.pi_chain, pi_res |-> e.pi_res, pi_id |-> e.pi_id,
         X_chain |-> e.X_chain, X_res |-> x.res_name, X_id |-> e.X_id,
         X_atom |-> e.X_atom, H_atom |-> e.H_atom,
         dist_X_Pi |-> Round3(e.dist_x_pi),
         is_plevin |-> e.plevin, is_hudson |-> e.hudson,
         remark |-> Remark(e.pi_res, e.mode),
         pi_ss_type |-> pi_ss.type, pi_ss_id |-> pi_ss.uid,
         X_ss_type |-> x_ss.type, X_ss_id |-> x_ss.uid,
         pi_avg_b |-> round_mean(e.pi_b_sum, e.pi_b_count),
         pi_center_x |-> RoundCoord(e.pi_center[1]),
         pi_center_y |-> RoundCoord(e.pi_center[2]),
         pi_center_z |-> RoundCoord(e.pi_center[3]),
         X_b |-> x.b_iso,
         X_xyz_x |-> RoundCoord(x.pos[1]),
         X_xyz_y |-> RoundCoord(x.pos[2]),
         X_xyz_z |-> RoundCoord(x.pos[3]),
         seq_sep |-> SeqSep(e.pi_chain, e.pi_id, e.X_chain, e.X_id),
         theta |-> Round2(e.theta),
         angle_XH_Pi |-> Round2(e.xh_pi_angle),
         angle_XPCN |-> Round2(e.xpcn_angle),
         proj_dist |-> IF e.proj_dist # NoValue THEN Round3(e.proj_dist) ELSE NoValue]

(* core.py:105-113  the X candidates that survive element, filters, distance *)
XSurvives(x, filter_donor, filter_donor_atom) ==
    /\ x.element \in TARGET_ELEMENTS_X
    /\ ~(Truthy(filter_donor) /\ x.res_name \notin filter_donor.items)
    /\ ~(Truthy(filter_donor_atom) /\ x.element \notin filter_donor_atom.items)
    /\ ~(x.dist > DIST_HUDSON_MAX)

(* core.py:116-130  the H candidates of one X that reach the criteria *)
FirstOf(s) == IF s = <<>> THEN <<>> ELSE <<s[1]>>

HCandidatesFirstOnly(x) ==
    FirstOf(SelectSeq(find_atoms(x.hs, x.altloc, DIST_CUTOFF_H),
                      LAMBDA h : h.element \in TARGET_ELEMENTS_H /\ AnglesDefined(x, h)))

HCandidates(x) ==
    SelectSeq(find_atoms(x.hs, x.altloc, DIST_CUTOFF_H),
              LAMBDA h : h.element \in TARGET_ELEMENTS_H /\ AnglesDefined(x, h))

(* core.py:85-219.  Returns the hits and, beside them, the locals of every  *)
(* triple that reached the criteria, in evaluation order.                  *)
RECURSIVE EvalHs(_, _, _, _, _, _)
EvalHs(model_id, chain_name, residue, mode, x, hs) ==
    IF hs = <<>> THEN <<>>
    ELSE <<Evaluate(model_id, chain_name, residue, mode, x, Head(hs))>>
         \o EvalHs(model_id, chain_name, residue, mode, x, Tail(hs))

WithX(x, es) == [i \in DOMAIN es |-> [x |-> x, e |-> es[i]]]

RECURSIVE EvalXs(_, _, _, _, _)
EvalXs(model_id, chain_name, residue, mode, xs) ==
    IF xs = <<>> THEN <<>>
    ELSE WithX(Head(xs),
               EvalHs(model_id, chain_name, residue, mode, Head(xs), HCandidates(Head(xs))))
         \o EvalXs(model_id, chain_name, residue, mode, Tail(xs))

(* core.py:175  hits.append(...) for the reported triples, in order *)
HitsOf(pdb_name, resolution, ss_index, kept) ==
    [i \in DOMAIN kept |-> Hit(pdb_name, resolution, ss_index, kept[i].x, kept[i].e)]

(* core.py:157-158  a query of the index raises for a reported triple; the *)
(* exception leaves _detect_residue and detect_interactions_in_structure,  *)
(* which catch nothing                                                     *)
HitRaises(ss_index, e) ==
    \/ get_info(e.pi_chain, e.pi_id, ss_index) = TypeErrorRaised
    \/ get_info(e.X_chain, e.X_id, ss_index) = TypeErrorRaised

HitsAndEvals(pdb_name, resolution, ss_index, all) ==
    LET kept == SelectSeq(all, LAMBDA p : Reported(p.e))
        raising == { i \in DOMAIN all : Reported(all[i].e) /\ HitRaises(ss_index, all[i].e) }
        first == CHOOSE i \in raising : \A j \in raising : i <= j
    IN  IF raising = {}
        THEN [hits   |-> HitsOf(pdb_name, resolution, ss_index, kept),
              evals  |-> [i \in DOMAIN all |-> all[i].e],
              raised |-> FALSE]
        ELSE [hits   |-> <<>>,
              evals  |-> [i \in 1..first |-> all[i].e],
              raised |-> TRUE]

NoHits == [hits |-> <<>>, evals |-> <<>>, raised |-> FALSE]

(* what two scans in a row give: the second does not run when the first    *)
(* raised                                                                  *)
Join(a, b) ==
    IF a.raised THEN a
    ELSE [hits |-> a.hits \o b.hits, evals |-> a.evals \o b.evals, raised |-> b.raised]

detect_residue(pdb_name, resolution, model_id, chain_name, residue, ss_index, target_atoms, mode, filter_donor, filter_donor_atom) ==
    IF ~Qualifies(residue, target_atoms) THEN NoHits
    ELSE
      LET alt_pi == pi_atoms(residue, target_atoms)[1].altloc
          x_candidates == find_atoms(residue.near[mode], alt_pi, DIST_SEARCH_LIMIT)
          xs == SelectSeq(x_candidates,
                          LAMBDA x : XSurvives(x, filter_donor, filter_donor_atom))
      IN  HitsAndEvals(pdb_name, resolution, ss_index,
                       EvalXs(model_id, chain_name, residue, mode, xs))

----------------------------------------------------------------------------
(* core.py: detect_interactions_in_structure *)

(* core.py:34  getattr(m, 'name', fallback) *)
model_name_positional(m, fallback) == fallback

model_name(m, fallback) == IF m.has_name THEN m.name ELSE fallback

(* core.py:39  0 <= idx < len(structure) *)
InRangeInclusive(idx, n) == 0 <= idx /\ idx <= n

InRange(idx, n) == 0 <= idx /\ idx < n

(* core.py:43-45  an index out of range selects nothing *)
OutOfRangeFirstModel(st) == <<[idx |-> 0, id |-> model_name(st.models[1], "1")]>>

OutOfRange(st) == <<>>

(* core.py:28-49.  model_mode is 'all' (kind "all"), something int()       *)
(* accepts (kind "int", its value idx) or a string int() rejects with      *)
(* ValueError (kind "bad").  Returns the list of (0-based index, id), or   *)
(* raised = TRUE when structure[idx] is read with idx outside it.          *)
select_models(st, model_mode) ==
    LET n == Len(st.models)
    IN  IF model_mode.kind = "all"
        THEN [raised |-> FALSE,
              models |-> [i \in 1..n |->
                            [idx |-> i - 1, id |-> model_name(st.models[i], str(i))]]]
        ELSE IF model_mode.kind = "int"
        THEN IF InRange(model_mode.idx, n)
             THEN IF model_mode.idx + 1 \in 1..n
                  THEN [raised |-> FALSE,
                        models |-> <<[idx |-> model_mode.idx,
                                      id |-> model_name(st.models[model_mode.idx + 1],
                                                        str(model_mode.idx + 1))]>>]
                  ELSE [raised |-> TRUE, models |-> <<>>]
             ELSE [raised |-> FALSE, models |-> OutOfRange(st)]
        ELSE IF n >= 1
             THEN [raised |-> FALSE,
                   models |-> <<[idx |-> 0, id |-> model_name(st.models[1], "1")]>>]
             ELSE [raised |-> TRUE, models |-> <<>>]

(* core.py:64-82  one residue: the main pi-system, then the trpA one *)
scan_residue(pdb_name, resolution, model_id, chain_name, residue, ss_index, a) ==
    IF Truthy(a.filter_pi) /\ residue.name \notin a.filter_pi.items THEN NoHits
    ELSE Join(IF residue.name \in DOMAIN RING_ATOMS
              THEN detect_residue(pdb_name, resolution, model_id, chain_name, residue, ss_index,
                                  RING_ATOMS[residue.name], "main",
                                  a.filter_donor, a.filter_donor_atom)
              ELSE NoHits,
              IF residue.name \in DOMAIN TRP_A_ATOMS
              THEN detect_residue(pdb_name, resolution, model_id, chain_name, residue, ss_index,
                                  TRP_A_ATOMS[residue.name], "trpA",
                                  a.filter_donor, a.filter_donor_atom)
              ELSE NoHits)

RECURSIVE scan_residues(_, _, _, _, _, _, _)
scan_residues(pdb_name, resolution, model_id, chain_name, residues, ss_index, a) ==
    IF residues = <<>> THEN NoHits
    ELSE Join(scan_residue(pdb_name, resolution, model_id, chain_name, Head(residues), ss_index, a),
              scan_residues(pdb_name, resolution, model_id, chain_name, Tail(residues), ss_index, a))

RECURSIVE scan_chains(_, _, _, _, _, _)
scan_chains(pdb_name, resolution, model_id, chains, ss_index, a) ==
    IF chains = <<>> THEN NoHits
    ELSE Join(scan_residues(pdb_name, resolution, model_id, Head(chains).name,
                            Head(chains).residues, ss_index, a),
              scan_chains(pdb_name, resolution, model_id, Tail(chains), ss_index, a))

(* core.py:50  resolution = structure.resolution if structure.resolution else 0.0 *)
resolution_of(st) == IF st.resolution # 0 THEN st.resolution ELSE 0

(* core.py:54-82  the body of the loop over models_with_ids, for one entry *)
scan_model(st, entry, a) ==
    scan_chains(a.pdb_name, resolution_of(st), entry.id, st.models[entry.idx + 1].chains,
                build_index(st), a)

MaxCalls == 2

(* core.py:23  results = [] *)
StaleResults == results

FreshResults == <<>>

(* core.py:13-51  the call, up to the loop over the selected models.  The   *)
(* structure is called once with any arguments, and then again with the    *)
(* same arguments while fewer than MaxCalls calls have returned.           *)
Call(a) ==
    /\ \/ pc = "idle"
       \/ pc = "done" /\ Len(calls) < MaxCalls /\ a = args
    /\ args' = a
    /\ evaluated' = <<>>
    /\ IF Len(structure.models) = 0
       THEN /\ pc' = "done"
            /\ results' = <<>>
            /\ models_with_ids' = <<>>
            /\ calls' = Append(calls, [args |-> a, results |-> <<>>])
       ELSE LET sel == select_models(structure, a.model_mode)
            IN  /\ pc' = IF sel.raised THEN "raised" ELSE "models"
                /\ results' = FreshResults
                /\ models_with_ids' = sel.models
                /\ calls' = calls
    /\ mi' = 0
    /\ UNCHANGED structure
    /\ UNCHANGED driverVars
    /\ UNCHANGED kernelVars

(* core.py:72, 79  results.extend(...) *)
Extend(got) ==
    /\ results' = results \o got.hits
    /\ evaluated' = evaluated \o got.evals

(* core.py:54-82  one iteration of the loop over models_with_ids *)
ProcessModel ==
    /\ pc = "models"
    /\ mi < Len(models_with_ids)
    /\ Extend(scan_model(structure, models_with_ids[mi + 1], args))
    /\ pc' = IF scan_model(structure, models_with_ids[mi + 1], args).raised
             THEN "raised" ELSE pc
    /\ mi' = mi + 1
    /\ UNCHANGED <<structure, args, models_with_ids, calls>>
    /\ UNCHANGED driverVars
    /\ UNCHANGED kernelVars

(* core.py:83  return results *)
Return ==
    /\ pc = "models"
    /\ mi = Len(models_with_ids)
    /\ pc' = "done"
    /\ calls' = Append(calls, [args |-> args, results |-> results])
    /\ UNCHANGED <<structure, args, models_with_ids, mi, results, evaluated>>
    /\ UNCHANGED driverVars
    /\ UNCHANGED kernelVars

----------------------------------------------------------------------------
(* The structures and arguments the engine is checked on *)

NoFilter == [none |-> TRUE, items |-> {}]
EmptyFilter == [none |-> FALSE, items |-> {}]
Filter(items) == [none |-> FALSE, items |-> items]

ModeAll == [kind |-> "all", idx |-> 0]
ModeBad == [kind |-> "bad", idx |-> 0]
ModeInt(i) == [kind |-> "int", idx |-> i]

Args(model_mode, filter_pi, filter_donor, filter_donor_atom) ==
    [pdb_name |-> "1abc", model_mode |-> model_mode, filter_pi |-> filter_pi,
     filter_donor |-> filter_donor, filter_donor_atom |-> filter_donor_atom]

DefaultArgs == Args(ModeInt(0), NoFilter, NoFilter, NoFilter)

(* An atom of a residue; its B-factor in 1e-2 units *)
Atom(name, altloc) == [name |-> name, altloc |-> altloc, b_iso |-> 2025]

(* The side-chain atoms of a complete residue, in file order *)
AtomNames(res_name) ==
    CASE res_name = "TRP" -> <<"CA", "CB", "CG", "CD1", "CD2", "NE1", "CE2", "CE3",
                               "CZ2", "CZ3", "CH2">>
      [] res_name = "TYR" -> <<"CA", "CB", "CG", "CD1", "CD2", "CE1", "CE2", "CZ", "OH">>
      [] res_name = "PHE" -> <<"CA", "CB", "CG", "CD1", "CD2", "CE1", "CE2", "CZ">>
      [] res_name = "HIS" -> <<"CA", "CB", "CG", "ND1", "CD2", "CE1", "NE2">>
      [] OTHER -> <<"CA", "CB">>

FullAtoms(res_name) ==
    [i \in DOMAIN AtomNames(res_name) |-> Atom(AtomNames(res_name)[i], "")]

(* A hydrogen around an X atom and an X atom around a pi-center, with the   *)
(* values of the geometry kernel for them.  Where nothing else is said the  *)
(* pi-center is the origin and the X atom lies on the x axis at its        *)
(* distance; positions are in 1e-6 Angstrom.                               *)
HMark(atom, element, altloc, dist, xh_pi, theta) ==
    [atom |-> atom, element |-> element, altloc |-> altloc, dist |-> dist,
     xh_pi |-> xh_pi, theta |-> theta]

XMark(chain, res_name, res_num, atom, element, altloc, dist, xpcn, proj, hs) ==
    [chain |-> chain, res_name |-> res_name, res_num |-> res_num, atom |-> atom,
     element |-> element, altloc |-> altloc, dist |-> dist, xpcn |-> xpcn,
     proj |-> proj, hs |-> hs, pos |-> <<dist, 0, 0>>, b_iso |-> 3150]

Residue(name, num, atoms, near_main, near_trpA) ==
    [name |-> name, num |-> num, atoms |-> atoms,
     near |-> [main |-> near_main, trpA |-> near_trpA],
     center |-> [main |-> <<0, 0, 0>>, trpA |-> <<0, 0, 0>>]]

Chain(name, residues) == [name |-> name, residues |-> residues]

Model(has_name, name, chains) == [has_name |-> has_name, name |-> name, chains |-> chains]

Helix(ok, chain, start, end, class) ==
    [ok |-> ok, chain |-> chain, start |-> start, end |-> end, class |-> class]

Structure(models) ==
    [models |-> models, resolution |-> 185,
     helices |-> <<Helix(TRUE, "A", 1, 20, 1)>>,
     sheets |-> <<<<Helix(TRUE, "A", 101, 110, 0)>>>>]

(* A donor that satisfies both criteria: a CB-HB2 of an alanine *)
GoodH == HMark("HB2", "H", "", 1090000, 150000000, 20000000)
GoodX == XMark("A", "ALA", 7, "CB", "C", "", 3800000, 10000000, 1000000, <<GoodH>>)

(* Family 1: one residue, one X, one H; the measured values range over the  *)
(* thresholds of the criteria and their neighbours.                        *)
DistValues == {4299400, 4299600, 4300000, 4500000, 4500600}
XpcnValues == {NoValue, 24999000, 25000000}
XhPiValues == {NoValue, 120000000, 120001000}
ThetaValues == {NoValue, 40000000, 40001000}
ProjValues == {NoValue, 1600000, 1600100, 2000000, 2000100}

TripleStructures ==
    { Structure(<<Model(TRUE, "1", <<Chain("A", <<
          Residue(rn, 15, FullAtoms(rn),
                  <<XMark("A", "ALA", 7, "CB", "C", "", d, xpcn, proj,
                          <<HMark("HB2", "H", "", 1090000, xh, th)>>)>>,
                  <<XMark("A", "ALA", 7, "CB", "C", "", d, xpcn, proj,
                          <<HMark("HB2", "H", "", 1090000, xh, th)>>)>>)
        >>)>>)>>) :
      rn \in DOMAIN RING_ATOMS, d \in DistValues, xpcn \in XpcnValues,
      xh \in XhPiValues, th \in ThetaValues, proj \in ProjValues }

(* Family 2: one residue with a good donor; its atom list misses names     *)
(* and repeats names (an atom in two alternate conformations).            *)
RECURSIVE EditAtoms(_, _, _)
EditAtoms(names, drop, dup) ==
    IF names = <<>> THEN <<>>
    ELSE LET n == Head(names)
             here == IF n \in drop THEN <<>>
                     ELSE IF n \in dup THEN <<Atom(n, "A"), Atom(n, "B")>>
                     ELSE <<Atom(n, "")>>
         IN  here \o EditAtoms(Tail(names), drop, dup)

MaxEdits == 1

AtomStructures ==
    { Structure(<<Model(TRUE, "1", <<Chain("A", <<
          Residue(rn, 15, EditAtoms(AtomNames(rn), drop, dup), <<GoodX>>, <<GoodX>>)
        >>)>>)>>) :
      rn \in {"TRP", "HIS"},
      drop \in {D \in SUBSET {"CG", "CD2", "CH2", "NE1", "CE1"} : Cardinality(D) <= MaxEdits},
      dup \in {D \in SUBSET {"CG", "CD2", "CE2", "CE3", "NE2"} : Cardinality(D) <= MaxEdits} }

(* Family 3: one residue with several donors, each with two hydrogens: one  *)
(* donor on each threshold of the Plevin criterion and one inside all.     *)
ProbeHs(xh) ==
    <<HMark("H1", "H", "", 1090000, xh, 60000000), HMark("H2", "D", "", 1090000, 90000000, 60000000)>>

ProbeXs ==
    <<XMark("A", "ALA", 7, "CB", "C", "", 4300000, 24999000, 3000000, ProbeHs(120001000)),
      XMark("A", "GLY", 8, "CA", "C", "", 4299400, 25000000, 3000000, ProbeHs(120001000)),
      XMark("B", "SER", 9, "OG", "O", "", 4299400, 24999000, 3000000, ProbeHs(120000000)),
      XMark("B", "LYS", 3, "NZ", "N", "", 4299400, 24999000, 3000000, ProbeHs(120001000))>>

ProbeStructures ==
    { Structure(<<Model(TRUE, "1", <<Chain("A", <<
          Residue(rn, 15, FullAtoms(rn), ProbeXs, ProbeXs)>>)>>)>>) :
      rn \in DOMAIN RING_ATOMS }

(* Family 4: up to MaxModels models, named or not, each without chains,    *)
(* with an empty chain, or with one chain holding a tryptophan with a good *)
(* donor; the tryptophan of the model at position i has number 100 + i.    *)
MaxModels == 2

ModelAt(i, named, content) ==
    Model(named, IF named THEN "7" ELSE "",
          CASE content = "nochain" -> <<>>
            [] content = "empty" -> <<Chain("A", <<>>)>>
            [] OTHER -> <<Chain("A", <<Residue("TRP", 100 + i, FullAtoms("TRP"),
                                               <<GoodX>>, <<GoodX>>)>>)>>)

ModelKinds == BOOLEAN \X {"nochain", "empty", "trp"}

ModelStructures ==
    { Structure([i \in DOMAIN kinds |-> ModelAt(i, kinds[i][1], kinds[i][2])]) :
      kinds \in UNION { [1..m -> ModelKinds] : m \in 0..MaxModels } }

EngineArgs ==
    { Args(m, fp, fd, fa) :
      m \in {ModeAll, ModeBad} \cup { ModeInt(i) : i \in -1..MaxModels },
      fp \in {NoFilter, EmptyFilter, Filter({"TYR"})},
      fd \in {NoFilter, Filter({"ALA"})},
      fa \in {NoFilter, Filter({"N"})} }

CriteriaArgs == {DefaultArgs, Args(ModeAll, NoFilter, NoFilter, NoFilter)}

(* Nothing is measured, indexed, cached or streamed *)
InitKernelIdle ==
    /\ geom = <<>>
    /\ secondary = <<>>
    /\ cache = <<>>
    /\ streamer = <<>>

InitDriverIdle ==
    /\ batch = <<>>
    /\ opts = [hmode |-> 4, separate_mode |-> FALSE, model_mode |-> ModeInt(0),
               mon_lib |-> <<>>, jobs |-> 1]
    /\ pool = <<>>
    /\ pending = {}
    /\ outcomes = <<>>
    /\ error_logs = <<>>
    /\ total_found = 0
    /\ merged = <<>>
    /\ api = <<>>

InitEngine(structures) ==
    /\ structure \in structures
    /\ pc = "idle"
    /\ args = DefaultArgs
    /\ models_with_ids = <<>>
    /\ mi = 0
    /\ results = <<>>
    /\ evaluated = <<>>
    /\ calls = <<>>
    /\ InitDriverIdle
    /\ InitKernelIdle

(* The criteria, on one residue of one model *)
Init == InitEngine(TripleStructures \cup AtomStructures \cup ProbeStructures)

Next ==
    \/ \E a \in CriteriaArgs : Call(a)
    \/ ProcessModel
    \/ Return

Spec == Init /\ [][Next]_vars

(* The selection of models, on structures of several models *)
InitModels == InitEngine(ModelStructures)

NextModels ==
    \/ \E a \in EngineArgs : Call(a)
    \/ ProcessModel
    \/ Return

SpecModels == InitModels /\ [][NextModels]_vars

----------------------------------------------------------------------------
(* Properties of the engine *)

(* The residues a record's pi side can come from *)
PiResidues(r) ==
    { res \in UNION { Range(ch.residues) :
                      ch \in UNION { { c \in Range(m.chains) : c.name = r.pi_chain } :
                                     m \in Range(structure.models) } } :
      res.num = r.pi_id /\ res.name = r.pi_res }

(* The pi-system definition a record comes from *)
TargetAtomsOf(r) ==
    IF r.remark = "5-ring" THEN TRP_A_ATOMS[r.pi_res] ELSE RING_ATOMS[r.pi_res]

ExactlyOnce(residue, target_atoms) ==
    \A n \in target_atoms :
        Cardinality({i \in DOMAIN residue.atoms : residue.atoms[i].name = n}) = 1

(* The records of one evaluated triple *)
RecordsOf(e) ==
    { k \in DOMAIN results :
        /\ results[k].model = e.model
        /\ results[k].pi_chain = e.pi_chain
        /\ results[k].pi_id = e.pi_id
        /\ results[k].remark = Remark(e.pi_res, e.mode)
        /\ results[k].X_chain = e.X_chain
        /\ results[k].X_id = e.X_id
        /\ results[k].X_atom = e.X_atom
        /\ results[k].H_atom = e.H_atom }

(* C1: every record comes from a residue that holds every required atom    *)
(* name of its pi-system definition exactly once.                          *)
C1_RequiredAtomsExactlyOnce ==
    \A k \in DOMAIN results :
        \A res \in PiResidues(results[k]) : ExactlyOnce(res, TargetAtomsOf(results[k]))

(* C2: a triple whose angles are defined has a record iff its Plevin or its *)
(* Hudson flag is 1, and then exactly one; a record carries both flags of   *)
(* its triple, each 0 or 1, at least one of them 1.                         *)
C2_ReportedIffPlevinOrHudson ==
    /\ \A i \in DOMAIN evaluated :
          LET e == evaluated[i]
          IN  /\ (RecordsOf(e) # {}) <=> (e.plevin = 1 \/ e.hudson = 1)
              /\ Cardinality(RecordsOf(e)) <= 1
              /\ \A k \in RecordsOf(e) :
                    results[k].is_plevin = e.plevin /\ results[k].is_hudson = e.hudson
    /\ \A k \in DOMAIN results :
          /\ results[k].is_plevin \in {0, 1}
          /\ results[k].is_hudson \in {0, 1}
          /\ results[k].is_plevin + results[k].is_hudson >= 1
          /\ \E i \in DOMAIN evaluated : k \in RecordsOf(evaluated[i])

C2_Witness ==
    /\ \E k \in DOMAIN results : results[k].is_plevin = 0 /\ results[k].is_hudson = 1
    /\ \E i \in DOMAIN evaluated : evaluated[i].plevin = 0 /\ evaluated[i].hudson = 0

(* C3: is_plevin = 1 iff dist_X_Pi < 4.3 and xhPiAngle > 120.0 and          *)
(* xpcnAngle < 25.0, all strict.                                           *)
C3_PlevinIff ==
    \A i \in DOMAIN evaluated :
        LET e == evaluated[i]
        IN  (e.plevin = 1) <=> (/\ e.dist_x_pi < 4300000
                                /\ e.xh_pi_angle > 120000000
                                /\ e.xpcn_angle < 25000000)

C3_Witness ==
    /\ \E i \in DOMAIN evaluated :
          LET e == evaluated[i]
          IN  e.dist_x_pi = 4300000 /\ e.xh_pi_angle > 120000000 /\ e.xpcn_angle < 25000000
              /\ e.plevin = 0
    /\ \E i \in DOMAIN evaluated :
          LET e == evaluated[i]
          IN  e.dist_x_pi < 4300000 /\ e.xh_pi_angle = 120000000 /\ e.xpcn_angle < 25000000
              /\ e.plevin = 0
    /\ \E i \in DOMAIN evaluated :
          LET e == evaluated[i]
          IN  e.dist_x_pi < 4300000 /\ e.xh_pi_angle > 120000000 /\ e.xpcn_angle = 25000000
              /\ e.plevin = 0
    /\ \E k \in DOMAIN results : results[k].is_plevin = 1

(* C4: is_hudson = 1 iff hudsonTheta <= 40.0 and dist_X_Pi <= 4.5 and       *)
(* proj_dist is defined and proj_dist <= threshold, the threshold being 1.6 *)
(* for the trpA variant and for HIS and 2.0 for the main ring of TRP, TYR   *)
(* and PHE; every pi-system definition has one of the two thresholds.      *)
HudsonThresholdOf(mode, pi_res) ==
    IF mode = "trpA" \/ pi_res = "HIS" THEN 1600000 ELSE 2000000

C4_HudsonIff ==
    /\ \A i \in DOMAIN evaluated :
          LET e == evaluated[i]
          IN  /\ (e.hudson = 1) <=> (/\ e.theta <= 40000000
                                     /\ e.dist_x_pi <= 4500000
                                     /\ e.proj # NoValue
                                     /\ e.proj <= HudsonThresholdOf(e.mode, e.pi_res))
              /\ e.proj_threshold = HudsonThresholdOf(e.mode, e.pi_res)
    /\ \A rn \in DOMAIN RING_ATOMS :
          /\ rn \in {"TRP", "TYR", "PHE", "HIS"}
          /\ ProjThreshold("main", rn) = IF rn = "HIS" THEN 1600000 ELSE 2000000
    /\ \A rn \in DOMAIN TRP_A_ATOMS : ProjThreshold("trpA", rn) = 1600000

C4_Witness ==
    /\ \E i \in DOMAIN evaluated :
          LET e == evaluated[i]
          IN  e.pi_res = "TRP" /\ e.mode = "main" /\ e.proj = 2000000
              /\ e.theta = 40000000 /\ e.dist_x_pi = 4500000 /\ e.hudson = 1
    /\ \E i \in DOMAIN evaluated :
          LET e == evaluated[i]
          IN  e.pi_res = "TRP" /\ e.mode = "trpA" /\ e.proj = 2000000 /\ e.hudson = 0

(* C10 as claimed: a record with is_plevin = 1 stores a dist_X_Pi strictly  *)
(* below 4.3, and every record stores a dist_X_Pi of at most 4.5.           *)
C10_StoredDistStrictlyBelow ==
    \A k \in DOMAIN results :
        /\ results[k].is_plevin = 1 => results[k].dist_X_Pi < 4300
        /\ results[k].dist_X_Pi <= 4500

(* C10 as amended: a record with is_plevin = 1 comes from a distance        *)
(* strictly below 4.3 and stores, rounded to 3 decimals, a dist_X_Pi of at  *)
(* most 4.3; every record stores a dist_X_Pi of at most 4.5.                *)
C10_StoredDistAtMost ==
    /\ \A k \in DOMAIN results :
          /\ results[k].is_plevin = 1 => results[k].dist_X_Pi <= 4300
          /\ results[k].dist_X_Pi <= 4500
    /\ \A i \in DOMAIN evaluated :
          evaluated[i].plevin = 1 => evaluated[i].dist_x_pi < 4300000

C10_Witness ==
    /\ \E k \in DOMAIN results :
          results[k].is_plevin = 1 /\ results[k].dist_X_Pi = 4300
    /\ \E i \in DOMAIN evaluated :
          evaluated[i].plevin = 1 /\ evaluated[i].dist_x_pi = 4299600

----------------------------------------------------------------------------
(* Properties of the selection of models (SpecModels) *)

(* The identifier of the model at 1-based position i: its name when it has  *)
(* one, else the decimal string of i.                                      *)
DecimalString(i) == <<"1", "2", "3", "4", "5", "6", "7", "8", "9">>[i]

ModelIdAt(i) ==
    IF structure.models[i].has_name THEN structure.models[i].name ELSE DecimalString(i)

(* The model at position i holds a residue, and the call's filters let the  *)
(* residue and its donor through.                                          *)
HoldsResidue(i) ==
    \E c \in DOMAIN structure.models[i].chains :
        structure.models[i].chains[c].residues # <<>>

NoFilterActive(a) ==
    /\ a.filter_pi \in {NoFilter, EmptyFilter}
    /\ a.filter_donor \in {NoFilter, EmptyFilter}
    /\ a.filter_donor_atom \in {NoFilter, EmptyFilter}

RecordsOfModel(i) == { k \in DOMAIN results : results[k].pi_id = 100 + i }

InCall == pc \in {"models", "done", "raised"}

OutOfRangeCall ==
    /\ InCall
    /\ args.model_mode.kind = "int"
    /\ args.model_mode.idx >= Len(structure.models)

(* C5: an integer model index that is >= the number of models selects no    *)
(* model, gives the empty list and raises nothing.                         *)
C5_OutOfRangeIsEmpty ==
    OutOfRangeCall =>
        /\ pc # "raised"
        /\ models_with_ids = <<>>
        /\ results = <<>>
        /\ evaluated = <<>>
        /\ \A c \in DOMAIN calls : calls[c].results = <<>>

C5_Witness ==
    /\ OutOfRangeCall
    /\ pc = "done"
    /\ Len(structure.models) >= 1
    /\ HoldsResidue(1)
    /\ NoFilterActive(args)

(* C6: with 'all' every model is selected once, in structure order, with    *)
(* its own identifier, and the records of the model at position i carry    *)
(* that identifier; with an index in range the one model is tagged alike.  *)
C6_ModelsTaggedInOrder ==
    LET n == Len(structure.models)
    IN  /\ (InCall /\ args.model_mode.kind = "all") =>
              /\ Len(models_with_ids) = n
              /\ \A i \in 1..n : models_with_ids[i] = [idx |-> i - 1, id |-> ModelIdAt(i)]
              /\ pc = "done" =>
                    /\ mi = n
                    /\ \A i \in 1..n :
                          /\ (HoldsResidue(i) /\ NoFilterActive(args))
                                => Cardinality(RecordsOfModel(i)) = 2
                          /\ ~HoldsResidue(i) => RecordsOfModel(i) = {}
        /\ (InCall /\ args.model_mode.kind = "int" /\ args.model_mode.idx \in 0..(n - 1)) =>
              /\ models_with_ids =
                    <<[idx |-> args.model_mode.idx, id |-> ModelIdAt(args.model_mode.idx + 1)]>>
              /\ \A k \in DOMAIN results : results[k].pi_id = 100 + args.model_mode.idx + 1
        /\ (InCall /\ args.model_mode.kind \in {"all", "int"}) =>
              /\ \A k \in DOMAIN results :
                    /\ results[k].pi_id - 100 \in 1..n
                    /\ results[k].model = ModelIdAt(results[k].pi_id - 100)
              /\ \A k, l \in DOMAIN results :
                    /\ k < l => results[k].pi_id <= results[l].pi_id
                    /\ (k # l /\ results[k].pi_id = results[l].pi_id)
                          => results[k].remark # results[l].remark

C6_Witness ==
    /\ pc = "done"
    /\ args.model_mode.kind = "all"
    /\ Len(structure.models) = 2
    /\ structure.models[1].has_name /\ ~structure.models[2].has_name
    /\ Len(results) = 4
    /\ results[1].model = "7" /\ results[2].model = "7"
    /\ results[3].model = "2" /\ results[4].model = "2"

(* C7: a structure without residues gives the empty list and raises         *)
(* nothing, for 'all', for every non-negative index and for every filter.  *)
NoResidues == \A i \in DOMAIN structure.models : ~HoldsResidue(i)

C7_EmptyStructureIsEmpty ==
    (/\ NoResidues
     /\ InCall
     /\ \/ args.model_mode.kind = "all"
        \/ args.model_mode.kind = "int" /\ args.model_mode.idx >= 0) =>
        /\ pc # "raised"
        /\ results = <<>>
        /\ \A c \in DOMAIN calls : calls[c].results = <<>>

C7_Witness ==
    /\ NoResidues
    /\ pc = "done"
    /\ Len(structure.models) = 2
    /\ structure.models[1].chains = <<>>
    /\ structure.models[2].chains # <<>>
    /\ args.model_mode = ModeInt(1)
    /\ args.filter_pi = Filter({"TYR"})

(* C8: two calls on the same structure with the same arguments return the   *)
(* same list of records in the same order.                                 *)
C8_SameArgsSameRecords ==
    \A c, d \in DOMAIN calls :
        calls[c].args = calls[d].args => calls[c].results = calls[d].results

C8_Witness ==
    /\ Len(calls) = 2
    /\ calls[1].args = calls[2].args
    /\ Len(calls[2].results) = 4
    /\ calls[2].results[1].pi_id # calls[2].results[3].pi_id

----------------------------------------------------------------------------
(* The engine as a function of its arguments: core.py:13-83 run to its end  *)
RECURSIVE scan_models(_, _, _)
scan_models(st, entries, a) ==
    IF entries = <<>> THEN NoHits
    ELSE Join(scan_model(st, Head(entries), a), scan_models(st, Tail(entries), a))

Selected(st, a, sel) ==
    IF sel.raised \/ scan_models(st, sel.models, a).raised
    THEN [raised |-> TRUE, results |-> <<>>]
    ELSE [raised |-> FALSE, results |-> scan_models(st, sel.models, a).hits]

detect_interactions_in_structure(st, a) ==
    IF Len(st.models) = 0 THEN [raised |-> FALSE, results |-> <<>>]
    ELSE Selected(st, a, select_models(st, a.model_mode))

----------------------------------------------------------------------------
(* prep.py, cli.py, __init__.py: one file from parse to records             *)
(*                                                                         *)
(* A file is [pdb_name, read_ok, prep_raises, structure]: whether           *)
(* gemmi.read_structure returns, whether gemmi.prepare_topology raises, and *)
(* the structure otherwise.  An Optional value is a sequence: None is <<>>  *)
(* and a value v is <<v>>.                                                  *)
None == <<>>
Some(v) == <<v>>

(* `not structure`: None, or a structure of no models (its len() is 0) *)
Falsy(opt_structure) == opt_structure = None \/ Len(opt_structure[1].models) = 0

(* prep.py:14-15  the module globals of a process that has imported prep *)
EmptyCache ==
    [CACHED_MONLIB |-> None, CACHED_LIB_PATH |-> None, created |-> 0, calls |-> <<>>]

MonLib(id) == [id |-> id, monomers |-> {}]

(* prep.py:21  the cache is absent or was made for another path *)
MissesOnlyWhenEmpty(c, mon_lib_path) == c.CACHED_MONLIB = None

Misses(c, mon_lib_path) ==
    c.CACHED_MONLIB = None \/ c.CACHED_LIB_PATH # mon_lib_path

(* prep.py:22-24 *)
Refill(c, mon_lib_path) ==
    [c EXCEPT !.CACHED_MONLIB = Some(MonLib(c.created + 1)),
              !.CACHED_LIB_PATH = mon_lib_path,
              !.created = c.created + 1]

(* prep.py:17-26  the cache after the call; the call returns its            *)
(* CACHED_MONLIB, which the log records.                                    *)
Logged(c, mon_lib_path) ==
    [c EXCEPT !.calls = Append(c.calls, [path |-> mon_lib_path,
                                         ret |-> c.CACHED_MONLIB[1].id,
                                         held |-> c.CACHED_MONLIB[1].monomers])]

get_shared_monlib(c, mon_lib_path) ==
    Logged(IF Misses(c, mon_lib_path) THEN Refill(c, mon_lib_path) ELSE c, mon_lib_path)

(* os.path.exists(mon_lib_path) *)
ExistingPaths == {"libA", "libB"}

(* prep.py:54-64  monlib.read_monomer_lib(mon_lib_path, missing_codes), on   *)
(* the object that _get_shared_monlib returned                             *)
read_missing(c, mon_lib_path, codes_to_load) ==
    IF /\ mon_lib_path # None
       /\ mon_lib_path[1] \in ExistingPaths
       /\ \E code \in codes_to_load :
              code \notin { m.code : m \in c.CACHED_MONLIB[1].monomers }
    THEN [c EXCEPT !.CACHED_MONLIB[1].monomers =
            @ \cup { [code |-> code, path |-> mon_lib_path] :
                     code \in { k \in codes_to_load :
                                k \notin { m.code : m \in c.CACHED_MONLIB[1].monomers } } }]
    ELSE c

(* prep.py:45  residue.name.strip() is empty: the names of no character but *)
(* blanks, among the names of at most three characters                     *)
BlankNames == {"", " ", "  ", "   "}

(* prep.py:41-48  the names that are kept, of the names met *)
named_codes(names) == { name \in names : name \notin BlankNames }

(* prep.py:40-48  the residue names of the structure that are not blank *)
all_codes(st) ==
    named_codes(UNION { UNION { { r.name : r \in Range(ch.residues) } :
                                ch \in Range(m.chains) } :
                        m \in Range(st.models) })

(* prep.py:35-64  what add_hydrogens_memory leaves in the cache of the       *)
(* process it runs in: nothing with h_change_val = 0, else the library of   *)
(* the path with the monomers of the structure read into it; the           *)
(* preparation that follows may raise, the cache keeps the change.         *)
add_hydrogens_cache(c, codes_to_load, mon_lib_path, h_change_val) ==
    IF h_change_val = 0 THEN c
    ELSE read_missing(get_shared_monlib(c, mon_lib_path), mon_lib_path, codes_to_load)

(* prep.py:28-80  what add_hydrogens_memory returns *)
add_hydrogens_memory(file, h_change_val) ==
    IF h_change_val = 0 THEN Some(file.structure)
    ELSE IF file.prep_raises THEN None
    ELSE Some(file.structure)

Failure(kind, pdb_name) ==
    [err |-> Some([kind |-> kind, pdb_name |-> pdb_name]), count |-> 0,
     data |-> None, out_path |-> None]

(* cli.py:182-193 *)
Success(found, o) ==
    IF Len(found) > 0
    THEN IF o.separate_mode
         THEN [err |-> None, count |-> Len(found), data |-> None,
               out_path |-> Some("xpid_output")]
         ELSE [err |-> None, count |-> Len(found), data |-> Some(found),
               out_path |-> None]
    ELSE [err |-> None, count |-> 0, data |-> None, out_path |-> None]

(* cli.py:173-196 *)
Detected(file, o, got) ==
    IF got.raised THEN Failure("Critical Error", file.pdb_name)
    ELSE Success(got.results, o)

(* cli.py:169-180 *)
Prepared(file, o, prepared) ==
    IF Falsy(prepared) THEN Failure("AddH Failed", file.pdb_name)
    ELSE Detected(file, o,
                  detect_interactions_in_structure(
                      prepared[1],
                      [Args(o.model_mode, NoFilter, NoFilter, NoFilter)
                          EXCEPT !.pdb_name = file.pdb_name]))

(* cli.py:155-196 *)
process_one_file(file, o) ==
    IF ~file.read_ok THEN Failure("Read Error", file.pdb_name)
    ELSE Prepared(file, o, add_hydrogens_memory(file, o.hmode))

(* cli.py:164-167  the cache of the process that ran process_one_file *)
process_one_file_cache(c, file, o) ==
    IF ~file.read_ok THEN c
    ELSE add_hydrogens_cache(c, all_codes(file.structure), o.mon_lib, o.hmode)

(* __init__.py:34-45 *)
ApiDetected(got) == IF got.raised THEN <<>> ELSE got.results

(* __init__.py:29-41  the records carry the name taken from the file name *)
ApiPrepared(file, prepared) ==
    IF Falsy(prepared) THEN <<>>
    ELSE ApiDetected(detect_interactions_in_structure(
                         prepared[1], [DefaultArgs EXCEPT !.pdb_name = file.pdb_name]))

(* __init__.py:9-45 *)
detect(file, mon_lib_path, h_mode) ==
    IF ~file.read_ok THEN <<>>
    ELSE ApiPrepared(file, add_hydrogens_memory(file, h_mode))

(* __init__.py:28-29  the cache of the process that called detect() *)
detect_cache(c, file, mon_lib_path, h_mode) ==
    IF ~file.read_ok THEN c
    ELSE add_hydrogens_cache(c, all_codes(file.structure), mon_lib_path, h_mode)

(* the merged file opened anew for every chunk *)
AccountReopened(i, ret) ==
    /\ outcomes' = [outcomes EXCEPT ![i] = Some(ret)]
    /\ error_logs' = IF ret.err # None THEN Append(error_logs, ret.err[1])
                     ELSE error_logs
    /\ total_found' = total_found + ret.count
    /\ merged' = IF ~opts.separate_mode /\ ret.data # None /\ ret.data[1] # <<>>
                 THEN ret.data[1]
                 ELSE merged

(* cli.py:339-347  the body of main()'s loop for one result *)
Account(i, ret) ==
    /\ outcomes' = [outcomes EXCEPT ![i] = Some(ret)]
    /\ error_logs' = IF ret.err # None THEN Append(error_logs, ret.err[1])
                     ELSE error_logs
    /\ total_found' = total_found + ret.count
    /\ merged' = IF ~opts.separate_mode /\ ret.data # None /\ ret.data[1] # <<>>
                 THEN merged \o ret.data[1]
                 ELSE merged

(* cli.py:338  multiprocessing.Pool(args.jobs, maxtasksperchild=100): the   *)
(* pool has args.jobs worker processes; each has its own module globals of *)
(* prep, and so has the process of a caller of the API.  A worker is       *)
(* replaced after 100 tasks, more than a batch of the model holds.         *)
Workers(jobs) == { <<"worker", k>> : k \in 1..jobs }

Caller == <<"caller", 0>>

Processes(jobs) == Workers(jobs) \cup {Caller}

(* cli.py:338  the pool before any task is handed out *)
NewPool(jobs) ==
    [next |-> 1, running |-> [w \in Workers(jobs) |-> 0], results |-> <<>>]

(* cli.py:339  imap_unordered hands the tasks out in the order of the list, *)
(* one at a time, to whichever worker is idle                              *)
TakeTask(w) ==
    /\ pool.running[w] = 0
    /\ pool.next <= Len(batch)
    /\ pool' = [pool EXCEPT !.running[w] = pool.next, !.next = @ + 1]
    /\ UNCHANGED <<batch, opts, pending, outcomes, error_logs, total_found, merged, api>>
    /\ UNCHANGED engineVars
    /\ UNCHANGED kernelVars

(* cli.py:155-196  the worker runs process_one_file on its task, which      *)
(* changes the cache of that process, and puts the tuple on the result     *)
(* queue of the pool                                                       *)
RunTask(w) ==
    /\ pool.running[w] # 0
    /\ cache' = [cache EXCEPT ![w] =
                    process_one_file_cache(@, batch[pool.running[w]], opts)]
    /\ pool' = [pool EXCEPT
                  !.running[w] = 0,
                  !.results = Append(@, [task |-> pool.running[w],
                                         ret |-> process_one_file(batch[pool.running[w]],
                                                                  opts)])]
    /\ UNCHANGED <<batch, opts, pending, outcomes, error_logs, total_found, merged, api>>
    /\ UNCHANGED engineVars
    /\ UNCHANGED <<geom, secondary, streamer>>

(* cli.py:339-347  main() takes the next result of imap_unordered, in the   *)
(* order the tasks completed, and accounts for it                          *)
DeliverResult ==
    /\ pool.results # <<>>
    /\ Account(Head(pool.results).task, Head(pool.results).ret)
    /\ pending' = pending \ {Head(pool.results).task}
    /\ pool' = [pool EXCEPT !.results = Tail(@)]
    /\ UNCHANGED <<batch, opts, api>>
    /\ UNCHANGED engineVars
    /\ UNCHANGED kernelVars

(* A caller of the Python API runs detect() on one file of the same set *)
ApiDetect(i) ==
    /\ i \in DOMAIN batch
    /\ api[i] = None
    /\ api' = [api EXCEPT ![i] = Some(detect(batch[i], None, opts.hmode))]
    /\ cache' = [cache EXCEPT ![Caller] = detect_cache(@, batch[i], None, opts.hmode)]
    /\ UNCHANGED <<batch, opts, pool, pending, outcomes, error_logs, total_found, merged>>
    /\ UNCHANGED engineVars
    /\ UNCHANGED <<geom, secondary, streamer>>

(* The files of a batch *)
PoorX == XMark("A", "ALA", 7, "CB", "C", "", 4400000, 60000000, 3000000,
               <<HMark("HB2", "H", "", 1090000, 90000000, 80000000)>>)

FileKind(read_ok, prep_raises, st) ==
    [read_ok |-> read_ok, prep_raises |-> prep_raises, structure |-> st]

(* The kinds of file, in a round: a batch holds consecutive kinds of it *)
FileKinds ==
    <<FileKind(FALSE, FALSE, Structure(<<>>)),
      FileKind(TRUE, FALSE, Structure(<<Model(TRUE, "1", <<Chain("A", <<
          Residue("TYR", 15, FullAtoms("TYR"), <<PoorX>>, <<>>)>>)>>)>>)),
      FileKind(TRUE, TRUE, Structure(<<Model(TRUE, "1", <<Chain("A", <<
          Residue("TYR", 15, FullAtoms("TYR"), <<GoodX>>, <<>>)>>)>>)>>)),
      FileKind(TRUE, FALSE, Structure(<<>>)),
      FileKind(TRUE, TRUE, Structure(<<Model(TRUE, "1", <<Chain("A", <<
          Residue("TYR", 15, FullAtoms("TYR"), <<PoorX>>, <<>>)>>)>>)>>)),
      FileKind(TRUE, FALSE, Structure(<<Model(TRUE, "1", <<Chain("A", <<
          Residue("TYR", 15, FullAtoms("TYR"), <<GoodX>>, <<>>)>>)>>)>>)),
      FileKind(TRUE, TRUE, Structure(<<>>))>>

(* n consecutive kinds of the round, from the one at position first on *)
Window(kinds, first, n) ==
    [i \in 1..n |-> kinds[((first + i - 2) % Len(kinds)) + 1]]

File(i, kind) ==
    [pdb_name |-> <<"1abc", "2xyz", "3def", "4ghi", "5jkl">>[i], read_ok |-> kind.read_ok,
     prep_raises |-> kind.prep_raises, structure |-> kind.structure]

MaxFiles == 2

Batches ==
    { [i \in 1..n |-> File(i, Window(FileKinds, first, n)[i])] :
      first \in DOMAIN FileKinds, n \in 1..MaxFiles }

(* cli.py:285  the monomer library of the run: none, or a directory *)
DriverLibs == {None, Some("libA")}

(* cli.py:232  --jobs *)
JobCounts == {1, 2, 3}

InitDriver ==
    /\ structure = Structure(<<>>)
    /\ pc = "idle"
    /\ args = DefaultArgs
    /\ models_with_ids = <<>>
    /\ mi = 0
    /\ results = <<>>
    /\ evaluated = <<>>
    /\ calls = <<>>
    /\ batch \in Batches
    /\ opts \in { [hmode |-> h, separate_mode |-> sep, model_mode |-> ModeInt(0),
                   mon_lib |-> lib, jobs |-> j] :
                  h \in {0, 4}, sep \in BOOLEAN, lib \in DriverLibs, j \in JobCounts }
    /\ pool = NewPool(opts.jobs)
    /\ pending = DOMAIN batch
    /\ outcomes = [i \in DOMAIN batch |-> None]
    /\ error_logs = <<>>
    /\ total_found = 0
    /\ merged = <<>>
    /\ api = [i \in DOMAIN batch |-> None]
    /\ cache = [p \in Processes(opts.jobs) |-> EmptyCache]
    /\ geom = <<>>
    /\ secondary = <<>>
    /\ streamer = <<>>

NextDriver ==
    \/ \E w \in Workers(opts.jobs) : TakeTask(w)
    \/ \E w \in Workers(opts.jobs) : RunTask(w)
    \/ DeliverResult
    \/ \E i \in DOMAIN batch : ApiDetect(i)

SpecDriver == InitDriver /\ [][NextDriver]_vars

----------------------------------------------------------------------------
(* Properties of the drivers (SpecDriver) *)

(* The parse or the hydrogen preparation of the file fails *)
UpstreamFailure(file) == ~file.read_ok \/ (opts.hmode # 0 /\ file.prep_raises)

(* The file is parsed and prepared, and holds no interaction *)
SucceedsWithZero(file) ==
    /\ ~UpstreamFailure(file)
    /\ Len(file.structure.models) >= 1
    /\ \A m \in DOMAIN file.structure.models :
          \A c \in DOMAIN file.structure.models[m].chains :
             \A r \in DOMAIN file.structure.models[m].chains[c].residues :
                \A x \in Range(file.structure.models[m].chains[c].residues[r].near.main) :
                    x.dist > 4300000 /\ x.proj > 2000000

(* What the caller can tell from a return value of process_one_file, the    *)
(* name of the file left aside                                             *)
Signal(ret) ==
    [err |-> IF ret.err = None THEN "None" ELSE ret.err[1].kind,
     count |-> ret.count, data |-> ret.data, out_path |-> ret.out_path]

C9_DriverDistinguishes ==
    \A i, j \in DOMAIN batch :
        (/\ outcomes[i] # None /\ outcomes[j] # None
         /\ UpstreamFailure(batch[i]) /\ SucceedsWithZero(batch[j]))
        => Signal(outcomes[i][1]) # Signal(outcomes[j][1])

C9_ApiDistinguishes ==
    \A i, j \in DOMAIN batch :
        (/\ api[i] # None /\ api[j] # None
         /\ UpstreamFailure(batch[i]) /\ SucceedsWithZero(batch[j]))
        => api[i][1] # api[j][1]

C9_BatchGoesOn ==
    /\ pending = { i \in DOMAIN batch : outcomes[i] = None }
    /\ \A i \in DOMAIN batch :
          (outcomes[i] # None /\ UpstreamFailure(batch[i]))
          => \E k \in DOMAIN error_logs : error_logs[k].pdb_name = batch[i].pdb_name
    /\ \A j \in DOMAIN batch :
          (outcomes[j] # None /\ ~UpstreamFailure(batch[j]))
          => outcomes[j][1] = process_one_file(batch[j], opts)

(* C9: a parse or preparation failure of one structure reaches the caller   *)
(* as a failure of that structure that differs from a run that found no    *)
(* interaction, and the other structures of the batch are still processed; *)
(* for the batch driver and for the API entry point detect().              *)
C9_UpstreamFailureSurfaced ==
    /\ C9_DriverDistinguishes
    /\ C9_BatchGoesOn
    /\ C9_ApiDistinguishes


----------------------------------------------------------------------------
(* The donors: a model of three residues with the atoms around them         *)
(*                                                                         *)
(* Chain A holds a tyrosine that misses CZ and a tryptophan, chain B a      *)
(* histidine.  Around the pi-centers lie donors that the queries and the    *)
(* checks of core.py:96-130 accept and donors that each of them rejects.   *)
(* undef names the angle that has no value somewhere in the structure:     *)
(* xpcnAngle of the serine's OG (the atom sits on the pi-center, so that    *)
(* hudsonTheta has no value either), or xhPiAngle or hudsonTheta of one     *)
(* hydrogen of the alanine's CB.                                           *)
DonorAla(undef) ==
    XMark("A", "ALA", 7, "CB", "C", "", 3800000, 10000000, 1000000,
          <<HMark("CB", "C", "", 0, 150000000, 20000000),
            HMark("HB1", "H", "", 1090000, 150000000, 20000000),
            HMark("HB2", "H", "", 1090000,
                  IF undef = "xh_pi" THEN NoValue ELSE 150000000,
                  IF undef = "theta" THEN NoValue ELSE 20000000),
            HMark("DB3", "D", "", 1090000, 130000000, 30000000),
            HMark("HA", "H", "", 1310000, 150000000, 20000000)>>)

DonorGly ==
    XMark("B", "GLY", 8, "CA", "C", "A", 4000000, 10000000, 1000000,
          <<HMark("HA2", "H", "A", 1090000, 150000000, 20000000),
            HMark("HA3", "H", "B", 1090000, 150000000, 20000000)>>)

DonorGlyB ==
    XMark("B", "GLY", 10, "CA", "C", "B", 4000000, 10000000, 1000000,
          <<HMark("HA2", "H", "B", 1090000, 150000000, 20000000),
            HMark("HA3", "H", "A", 1090000, 150000000, 20000000)>>)

DonorSer(undef) ==
    XMark("A", "SER", -2, "OG", "O", "", 3800000,
          IF undef = "xpcn" THEN NoValue ELSE 10000000, 1000000,
          <<HMark("HG", "H", "", 960000, 150000000,
                  IF undef = "xpcn" THEN NoValue ELSE 20000000)>>)

DonorLysFar ==
    XMark("B", "LYS", 3, "NZ", "N", "", 4500600, 10000000, 1000000,
          <<HMark("HZ1", "H", "", 1010000, 150000000, 20000000)>>)

DonorLysNear ==
    XMark("B", "LYS", 39, "NZ", "N", "", 4100000, 10000000, 1000000,
          <<HMark("HZ1", "H", "", 1010000, 150000000, 20000000),
            HMark("HZ2", "H", "", 1010000, 100000000, 50000000)>>)

DonorHydrogen ==
    XMark("A", "ALA", 7, "HB1", "H", "", 3000000, 10000000, 1000000,
          <<HMark("HB1", "H", "", 0, NoValue, NoValue)>>)

DonorCysOutside ==
    XMark("A", "CYS", 21, "SG", "S", "", 6010000, 10000000, 1000000,
          <<HMark("HG", "H", "", 1290000, 150000000, 20000000)>>)

DonorCys ==
    XMark("A", "CYS", 22, "SG", "S", "B", 4400000, 10000000, 1000000,
          <<HMark("HG", "H", "B", 1290000, 150000000, 20000000)>>)

(* the tryptophan's own CB *)
DonorOwn ==
    XMark("A", "TRP", 15, "CB", "C", "", 3700000, 10000000, 1000000,
          <<HMark("HB2", "H", "", 1090000, 150000000, 20000000),
            HMark("HB3", "H", "", 1090000, 60000000, NoValue)>>)

DonorXs(undef) ==
    <<DonorOwn, DonorAla(undef), DonorGly, DonorGlyB, DonorSer(undef), DonorLysFar,
      DonorHydrogen, DonorCysOutside, DonorCys>>

AtomsIn(res_name, altloc) ==
    [i \in DOMAIN AtomNames(res_name) |-> Atom(AtomNames(res_name)[i], altloc)]

DonorStructures ==
    { Structure(<<Model(TRUE, "1", <<
          Chain("A", <<Residue("TYR", 12, EditAtoms(AtomNames("TYR"), {"CZ"}, {}),
                               <<DonorAla(undef)>>, <<>>),
                       Residue("TRP", 15, AtomsIn("TRP", alt_pi),
                               DonorXs(undef), DonorXs(undef))>>),
          Chain("B", <<Residue("HIS", 40, AtomsIn("HIS", alt_pi),
                               <<DonorGly, DonorLysNear, DonorAla(undef)>>, <<>>)>>)
        >>)>>) :
      alt_pi \in {"", "A", "B"}, undef \in {"xpcn", "xh_pi", "theta"} }

DonorArgs ==
    { Args(ModeInt(0), fp, fd, fa) :
      fp \in {NoFilter, Filter({"TRP", "TYR"})},
      fd \in {NoFilter, EmptyFilter, Filter({"ALA", "GLY", "TRP"})},
      fa \in {NoFilter, EmptyFilter, Filter({"C"}), Filter({"N", "O"})} }

InitDonors == InitEngine(DonorStructures)

NextDonors ==
    \/ \E a \in DonorArgs : Call(a)
    \/ ProcessModel
    \/ Return

SpecDonors == InitDonors /\ [][NextDonors]_vars

----------------------------------------------------------------------------
(* The donors, with residues that carry no number                          *)
(*                                                                         *)
(* The tryptophan of chain A, the alanine of chain A, the histidine of     *)
(* chain B and the near lysine of chain B each carry a residue number or   *)
(* none.  Chain A has secondary-structure regions and chain B has none     *)
(* (Structure), so that a reported triple with an unnumbered residue of    *)
(* chain A raises in get_info, while one of chain B reaches core.py:160.   *)
SeqSepOwn(w) == [DonorOwn EXCEPT !.res_num = w]

SeqSepAla(n) == [DonorAla("xh_pi") EXCEPT !.res_num = n]

SeqSepLys(n) == [DonorLysNear EXCEPT !.res_num = n]

SeqSepXs(w, a, l) ==
    <<SeqSepOwn(w), SeqSepAla(a), DonorGly, DonorSer("xh_pi"), SeqSepLys(l), DonorCys>>

SeqSepStructures ==
    { Structure(<<Model(TRUE, "1", <<
          Chain("A", <<Residue("TRP", w, AtomsIn("TRP", ""),
                               SeqSepXs(w, a, l), SeqSepXs(w, a, l))>>),
          Chain("B", <<Residue("HIS", h, AtomsIn("HIS", ""),
                               <<DonorGly, SeqSepLys(l), SeqSepAla(a)>>, <<>>)>>)
        >>)>>) :
      w \in {15, NoNum}, a \in {7, NoNum}, h \in {40, NoNum}, l \in {39, NoNum} }

InitSeqSep == InitEngine(SeqSepStructures)

NextSeqSep ==
    \/ \E a \in DonorArgs : Call(a)
    \/ ProcessModel
    \/ Return

SpecSeqSep == InitSeqSep /\ [][NextSeqSep]_vars

----------------------------------------------------------------------------
(* Properties of the donor search (SpecDonors) *)

(* The pi-system definitions of the structure's first model, and the        *)
(* (pi-system, X, H) triples of the atoms around them.                     *)
ModesOf(res_name) ==
    (IF res_name \in DOMAIN RING_ATOMS THEN {"main"} ELSE {})
    \cup (IF res_name \in DOMAIN TRP_A_ATOMS THEN {"trpA"} ELSE {})

PiSystems ==
    UNION { UNION { { [chain |-> ch.name, residue |-> res, mode |-> md] :
                      md \in ModesOf(res.name) } :
                    res \in Range(ch.residues) } :
            ch \in Range(structure.models[1].chains) }

Triples ==
    UNION { UNION { { [pi |-> p, x |-> x, h |-> h] : h \in Range(x.hs) } :
                    x \in Range(p.residue.near[p.mode]) } :
            p \in PiSystems }

RemarkOf(p) ==
    IF p.residue.name = "TRP" THEN (IF p.mode = "main" THEN "6-ring" ELSE "5-ring") ELSE ""

(* The record, or the evaluated triple, is the one of triple t *)
RecordOfTriple(r, t) ==
    /\ r.pi_chain = t.pi.chain
    /\ r.pi_res = t.pi.residue.name
    /\ r.pi_id = t.pi.residue.num
    /\ r.remark = RemarkOf(t.pi)
    /\ r.X_chain = t.x.chain
    /\ r.X_res = t.x.res_name
    /\ r.X_id = t.x.res_num
    /\ r.X_atom = t.x.atom
    /\ r.H_atom = t.h.atom

EvaluationOfTriple(e, t) ==
    /\ e.pi_chain = t.pi.chain
    /\ e.pi_id = t.pi.residue.num
    /\ e.mode = t.pi.mode
    /\ e.X_chain = t.x.chain
    /\ e.X_id = t.x.res_num
    /\ e.X_atom = t.x.atom
    /\ e.H_atom = t.h.atom

(* An allow-list that is absent or empty is inactive *)
ListActive(f) == ~f.none /\ f.items # {}

Allows(f, item) == ListActive(f) => item \in f.items

TargetAtoms(p) ==
    IF p.mode = "trpA" THEN TRP_A_ATOMS[p.residue.name] ELSE RING_ATOMS[p.residue.name]

(* The pi-system is searched: its residue passes the pi-residue allow-list  *)
(* and holds the required atoms.                                           *)
PiSearched(p) ==
    /\ Allows(args.filter_pi, p.residue.name)
    /\ ExactlyOnce(p.residue, TargetAtoms(p))

(* The representative altloc of the pi-system: that of its first atom *)
AltOfPi(p) ==
    LET k == CHOOSE i \in DOMAIN p.residue.atoms :
                 /\ p.residue.atoms[i].name \in TargetAtoms(p)
                 /\ \A j \in 1..(i - 1) : p.residue.atoms[j].name \notin TargetAtoms(p)
    IN  p.residue.atoms[k].altloc

SameConformer(a, b) == a = "" \/ b = "" \/ a = b

(* The X atom is returned by the query around the pi-center *)
XReturned(t) ==
    t.x.dist <= 6000000 /\ SameConformer(AltOfPi(t.pi), t.x.altloc)

(* The X atom passes the element check, the donor allow-lists and the       *)
(* distance bound.                                                         *)
XAccepted(t) ==
    /\ t.x.element \in {"C", "N", "O", "S"}
    /\ Allows(args.filter_donor, t.x.res_name)
    /\ Allows(args.filter_donor_atom, t.x.element)
    /\ t.x.dist <= 4500000

(* The H atom is returned by the query around the X atom and is H or D *)
HReturned(t) ==
    t.h.dist <= 1300000 /\ SameConformer(t.x.altloc, t.h.altloc)

HAccepted(t) == t.h.element \in {"H", "D"}

(* The triple reaches the geometric checks of core.py:124-130 *)
Reaches(t) ==
    PiSearched(t.pi) /\ XReturned(t) /\ XAccepted(t) /\ HReturned(t) /\ HAccepted(t)

Undefined(t) ==
    t.x.xpcn = NoValue \/ t.h.xh_pi = NoValue \/ t.h.theta = NoValue

PlevinHolds(t) ==
    t.x.dist < 4300000 /\ t.h.xh_pi > 120000000 /\ t.x.xpcn < 25000000

HudsonHolds(t) ==
    /\ t.h.theta <= 40000000
    /\ t.x.dist <= 4500000
    /\ t.x.proj # NoValue
    /\ t.x.proj <= HudsonThresholdOf(t.pi.mode, t.pi.residue.name)

Qualifying(t) ==
    Reaches(t) /\ ~Undefined(t) /\ (PlevinHolds(t) \/ HudsonHolds(t))

RecordsOfTriple(t) == { k \in DOMAIN results : RecordOfTriple(results[k], t) }

EvaluationsOfTriple(t) == { i \in DOMAIN evaluated : EvaluationOfTriple(evaluated[i], t) }

(* C11: a triple with an angle that has no value gives no record and is not *)
(* evaluated against the criteria; every other triple that reaches the      *)
(* geometric checks, of the same X, of the other X atoms and of the other   *)
(* residues, is evaluated once; the call does not raise.                   *)
C11_UndefinedAngleDropsOneTriple ==
    /\ pc # "raised"
    /\ pc = "done" =>
          \A t \in Triples :
              /\ (Reaches(t) /\ Undefined(t)) =>
                    RecordsOfTriple(t) = {} /\ EvaluationsOfTriple(t) = {}
              /\ (Reaches(t) /\ ~Undefined(t)) =>
                    /\ Cardinality(EvaluationsOfTriple(t)) = 1
                    /\ (RecordsOfTriple(t) # {}) <=> (PlevinHolds(t) \/ HudsonHolds(t))

C11_Witness ==
    /\ pc = "done"
    /\ \E t \in Triples :
          /\ Reaches(t) /\ t.h.theta = NoValue /\ t.x.xpcn # NoValue /\ t.h.xh_pi # NoValue
          /\ \E u \in Triples :
                Reaches(u) /\ u.pi = t.pi /\ u.x = t.x /\ RecordsOfTriple(u) # {}
          /\ \E v \in Triples :
                Reaches(v) /\ v.pi = t.pi /\ v.x # t.x /\ RecordsOfTriple(v) # {}
          /\ \E w \in Triples :
                Reaches(w) /\ w.pi.residue # t.pi.residue /\ RecordsOfTriple(w) # {}
    /\ \E t \in Triples : Reaches(t) /\ (t.h.xh_pi = NoValue \/ t.x.xpcn = NoValue)

(* C14: the X atom of a record was returned by the query of radius 6.0      *)
(* around the pi-center with the pi-system's altloc, is C, N, O or S, is    *)
(* allowed by the donor-residue and donor-element lists that are active,   *)
(* and lies within 4.5 of the center; the H atom of a record was returned  *)
(* by the query of radius 1.3 around the X atom with the X atom's altloc    *)
(* and is H or D.                                                          *)
C14_DonorsComeFromQueries ==
    \A k \in DOMAIN results :
        /\ \E t \in Triples : RecordOfTriple(results[k], t)
        /\ \A t \in Triples :
              RecordOfTriple(results[k], t) =>
                  XReturned(t) /\ XAccepted(t) /\ HReturned(t) /\ HAccepted(t)

C14_Witness ==
    /\ pc = "done"
    /\ results # <<>>
    /\ ListActive(args.filter_donor)
    /\ ListActive(args.filter_donor_atom)
    /\ \E t \in Triples :
          /\ PiSearched(t.pi) /\ ~XReturned(t) /\ t.x.dist <= 4500000
          /\ Allows(args.filter_donor, t.x.res_name)
          /\ Allows(args.filter_donor_atom, t.x.element)
    /\ \E t \in Triples :
          /\ PiSearched(t.pi) /\ XReturned(t) /\ XAccepted(t)
          /\ ~HReturned(t) /\ t.h.dist <= 1300000 /\ HAccepted(t)
    /\ \E t \in Triples :
          /\ PiSearched(t.pi) /\ XReturned(t) /\ t.x.dist <= 4500000
          /\ ~Allows(args.filter_donor, t.x.res_name)

(* C15: every qualifying (pi-system, X, H) triple has exactly one record    *)
(* and nothing else has one: an X atom with k qualifying hydrogens has k    *)
(* records, and the two pi-systems of a tryptophan each have their own.     *)
C15_OneRecordPerTriple ==
    pc = "done" =>
        /\ \A t \in Triples :
              Cardinality(RecordsOfTriple(t)) = IF Qualifying(t) THEN 1 ELSE 0
        /\ Len(results) = Cardinality({ t \in Triples : Qualifying(t) })

C15_Witness ==
    /\ pc = "done"
    /\ \E t \in Triples :
          /\ Qualifying(t) /\ Cardinality(RecordsOfTriple(t)) = 1
          /\ Cardinality({ u \in Triples : u.pi = t.pi /\ u.x = t.x /\ Qualifying(u) }) = 3
          /\ \E v \in Triples :
                /\ v.pi.residue = t.pi.residue /\ v.pi.mode # t.pi.mode
                /\ v.x = t.x /\ v.h = t.h
                /\ Cardinality(RecordsOfTriple(v)) = 1

(* C16: seq_sep of a record is abs(pi_id - X_id) when the two residues are  *)
(* on the same chain and -1 when they are not; it is >= 0 exactly for       *)
(* partners on the same chain.                                             *)
C16_SeqSepByChain ==
    \A k \in DOMAIN results :
        LET r == results[k]
        IN  /\ \E t \in Triples :
                  /\ RecordOfTriple(r, t)
                  /\ r.pi_chain = t.pi.chain /\ r.X_chain = t.x.chain
                  /\ r.pi_id = t.pi.residue.num /\ r.X_id = t.x.res_num
            /\ (r.seq_sep >= 0) <=> (r.pi_chain = r.X_chain)
            /\ (r.seq_sep = -1) <=> (r.pi_chain # r.X_chain)
            /\ r.pi_chain # r.X_chain => r.seq_sep = -1
            /\ r.pi_chain = r.X_chain =>
                  r.seq_sep = (IF r.pi_id >= r.X_id THEN r.pi_id - r.X_id
                               ELSE r.X_id - r.pi_id)

(* C16, with the residues that carry no number: seq_sep of a record is      *)
(* abs(pi_id - X_id) when the two residues are on the same chain and both   *)
(* carry a residue number, and -1 when the chains differ or when, on the    *)
(* same chain, one of the two numbers is missing; it is >= 0 exactly for    *)
(* numbered partners on the same chain, so that partners on different      *)
(* chains always have -1 and a value >= 0 always means the same chain.     *)
C16_SeqSepByChainAndNumber ==
    \A k \in DOMAIN results :
        LET r == results[k]
            same == r.pi_chain = r.X_chain
            numbered == r.pi_id # NoNum /\ r.X_id # NoNum
        IN  /\ \E t \in Triples :
                  /\ RecordOfTriple(r, t)
                  /\ r.pi_chain = t.pi.chain /\ r.X_chain = t.x.chain
                  /\ r.pi_id = t.pi.residue.num /\ r.X_id = t.x.res_num
            /\ (same /\ numbered) =>
                  r.seq_sep = (IF r.pi_id >= r.X_id THEN r.pi_id - r.X_id
                               ELSE r.X_id - r.pi_id)
            /\ (same /\ ~numbered) => r.seq_sep = -1
            /\ ~same => r.seq_sep = -1
            /\ (r.seq_sep >= 0) <=> (same /\ numbered)
            /\ (r.seq_sep = -1) <=> (~same \/ ~numbered)

C16_Witness ==
    /\ pc = "done"
    /\ \E k \in DOMAIN results :
          /\ results[k].pi_chain = "B" /\ results[k].X_chain = "B"
          /\ results[k].pi_id = 40 /\ results[k].X_id = NoNum
          /\ results[k].seq_sep = -1
    /\ \E k \in DOMAIN results :
          results[k].pi_chain = "A" /\ results[k].X_chain = "A" /\ results[k].seq_sep = 0
    /\ \E k \in DOMAIN results :
          results[k].pi_id = 15 /\ results[k].X_id = -2 /\ results[k].seq_sep = 17
    /\ \E k \in DOMAIN results :
          results[k].pi_id = 15 /\ results[k].X_id = 22 /\ results[k].seq_sep = 7
    /\ \E k \in DOMAIN results :
          results[k].pi_chain = "A" /\ results[k].X_chain = "B" /\ results[k].seq_sep = -1
    /\ \E k \in DOMAIN results :
          results[k].pi_chain = "B" /\ results[k].X_chain = "A" /\ results[k].seq_sep = -1
    /\ \E k \in DOMAIN results :
          /\ results[k].pi_chain = "B" /\ results[k].X_chain = "B"
          /\ results[k].pi_id = 40 /\ results[k].X_id = 8 /\ results[k].seq_sep = 32

----------------------------------------------------------------------------
(* The geometry kernel on a grid of positions.  The pi-center is the        *)
(* origin; the normal is a unit vector, a longer vector or the zero         *)
(* vector; the X atom is on the center, on the normal's axis or off it,     *)
(* inside and outside the distance bounds; the hydrogen is on the X atom    *)
(* or one Angstrom from it, toward the ring, away from it or across.       *)
Centers == {<<0, 0, 0>>}

Normals == {<<0, 0, 1>>, <<0, 0, 0>>, <<1, 0, 1>>, <<0, 0, -1>>}

XPositions ==
    {<<0, 0, 0>>, <<0, 0, 1>>, <<0, 0, 2>>, <<0, 0, -2>>, <<1, 0, 2>>, <<2, 0, 0>>,
     <<1, 1, 1>>, <<2, 0, 1>>, <<0, 0, 4>>, <<4, 2, 0>>, <<4, 2, 1>>, <<1, 0, 1>>}

HOffsets ==
    {<<0, 0, 0>>, <<1, 0, 0>>, <<-1, 0, 0>>, <<0, 1, 0>>, <<0, -1, 0>>,
     <<0, 0, 1>>, <<0, 0, -1>>}

Add(a, b) == <<a[1] + b[1], a[2] + b[2], a[3] + b[3]>>

(* The structure of one tyrosine whose pi-center and normal are given, with *)
(* one donor atom and its hydrogen at the given positions: the atoms the    *)
(* Neighbor Index returns carry what the kernel computes for them.         *)
Micro(pos) == <<pos[1] * 1000000, pos[2] * 1000000, pos[3] * 1000000>>

GeomStructure(pi_center, pi_normal, x_pos, h_pos) ==
    Structure(<<Model(TRUE, "1", <<Chain("A", <<
        [Residue("TYR", 15, FullAtoms("TYR"),
                <<[XMark("A", "ALA", 7, "CB", "C", "",
                         calculate_distance(x_pos, pi_center),
                         calculate_xpcn_angle(x_pos, pi_center, pi_normal),
                         calculate_projection_dist(pi_normal, pi_center, x_pos),
                         <<HMark("HB1", "H", "", calculate_distance(h_pos, x_pos),
                                 calculate_xh_picenter_angle(pi_center, x_pos, h_pos),
                                 calculate_hudson_theta(pi_center, x_pos, h_pos, pi_normal))>>)
                      EXCEPT !.pos = Micro(x_pos)]>>,
                <<>>)
            EXCEPT !.center = [main |-> Micro(pi_center), trpA |-> Micro(pi_center)]]>>)>>)>>)

Measured(xpcn_angle, xh_pi_angle, theta) ==
    [xpcn_angle |-> xpcn_angle, xh_pi_angle |-> xh_pi_angle, theta |-> theta]

(* core.py:126-128  the three calls of the kernel for one triple *)
Measure ==
    /\ geom # <<>>
    /\ geom.out = <<>>
    /\ geom' = [geom EXCEPT !.out =
                  <<Measured(
                      calculate_xpcn_angle(geom.x_pos, geom.pi_center, geom.pi_normal),
                      calculate_xh_picenter_angle(geom.pi_center, geom.x_pos, geom.h_pos),
                      calculate_hudson_theta(geom.pi_center, geom.x_pos, geom.h_pos,
                                             geom.pi_normal))>>]
    /\ UNCHANGED <<secondary, cache, streamer>>
    /\ UNCHANGED engineVars
    /\ UNCHANGED driverVars

InitGeometry ==
    /\ \E c \in Centers, n \in Normals, x \in XPositions, o \in HOffsets :
          /\ geom = [pi_center |-> c, pi_normal |-> n, x_pos |-> x, h_pos |-> Add(x, o),
                     out |-> <<>>]
          /\ structure = GeomStructure(c, n, x, Add(x, o))
    /\ pc = "idle"
    /\ args = DefaultArgs
    /\ models_with_ids = <<>>
    /\ mi = 0
    /\ results = <<>>
    /\ evaluated = <<>>
    /\ calls = <<>>
    /\ InitDriverIdle
    /\ secondary = <<>>
    /\ cache = <<>>
    /\ streamer = <<>>

NextGeometry ==
    \/ Measure
    \/ Call(DefaultArgs)
    \/ ProcessModel
    \/ Return

SpecGeometry == InitGeometry /\ [][NextGeometry]_vars

(* Properties of the kernel (SpecGeometry) *)
VXPi == Sub(geom.pi_center, geom.x_pos)
VXH == Sub(geom.h_pos, geom.x_pos)
VHC == Sub(geom.h_pos, geom.pi_center)
Zero == <<0, 0, 0>>

(* the angle a fold leaves in [0, 90] *)
Folded(angle) == IF angle >= 90000000 THEN 180000000 - angle ELSE angle

(* C12: calculate_hudson_theta has no value when the projection of H - X on *)
(* center - X is <= 0, zero included, or X is on the center; when the       *)
(* projection is > 0 and the normal is not zero it is the angle between the *)
(* normal and H - X, folded to 180 - angle from 90 on; a triple whose        *)
(* hydrogen does not point to the ring is not classified.                  *)
C12_ThetaNeedsHydrogenTowardRing ==
    /\ geom.out # <<>> =>
          /\ (Dot(VXH, VXPi) <= 0 \/ geom.x_pos = geom.pi_center)
                => geom.out[1].theta = NoValue
          /\ (Dot(VXH, VXPi) > 0 /\ geom.pi_normal # Zero)
                => /\ geom.out[1].theta # NoValue
                   /\ geom.out[1].theta =
                        Folded(ArcCosDeg(Dot(geom.pi_normal, VXH),
                                         NormSq(geom.pi_normal), NormSq(VXH)))
    /\ (Dot(VXH, VXPi) <= 0 /\ pc = "done") => results = <<>> /\ evaluated = <<>>

C12_Witness ==
    /\ geom.out # <<>>
    /\ pc = "done"
    /\ Dot(VXH, VXPi) = 0
    /\ VXH # Zero /\ VXPi # Zero /\ geom.pi_normal # Zero
    /\ calculate_distance(geom.x_pos, geom.pi_center) < 4300000
    /\ geom.out[1].xpcn_angle < 25000000
    /\ geom.out[1].theta = NoValue

(* C13: where they are defined, calculate_xpcn_angle and                     *)
(* calculate_hudson_theta are in [0, 90] and calculate_xh_picenter_angle is *)
(* in [0, 180], unfolded; so are angle_XPCN, theta and angle_XH_Pi of every *)
(* record.                                                                 *)
C13_AnglesInRange ==
    /\ geom.out # <<>> =>
          /\ (VXPi # Zero /\ geom.pi_normal # Zero)
                => geom.out[1].xpcn_angle \in 0..90000000
          /\ (VXPi = Zero \/ geom.pi_normal = Zero)
                => geom.out[1].xpcn_angle = NoValue
          /\ \/ geom.out[1].theta = NoValue
             \/ geom.out[1].theta \in 0..90000000
          /\ (VXH # Zero /\ VHC # Zero)
                => /\ geom.out[1].xh_pi_angle \in 0..180000000
                   /\ (Dot(VXH, VHC) < 0) <=> (geom.out[1].xh_pi_angle > 90000000)
          /\ (VXH = Zero \/ VHC = Zero)
                => geom.out[1].xh_pi_angle = NoValue
    /\ \A k \in DOMAIN results :
          /\ results[k].angle_XPCN \in 0..9000
          /\ results[k].theta \in 0..9000
          /\ results[k].angle_XH_Pi \in 0..18000

C13_Witness ==
    /\ geom.out # <<>>
    /\ Dot(VXPi, geom.pi_normal) < 0
    /\ Dot(geom.pi_normal, VXH) < 0
    /\ geom.out[1].xpcn_angle \in 0..90000000
    /\ geom.out[1].theta \in 0..90000000
    /\ \E k \in DOMAIN results : results[k].angle_XH_Pi > 9000

----------------------------------------------------------------------------
(* residue_ss.py on its own: the annotations of a structure, the index      *)
(* built from them and the last query of it.                               *)
MaxHelices == 2
MaxStrands == 2

Malformed == Helix(FALSE, "", 0, 0, 0)

(* Annotations whose residue ids carry no number: a helix without the      *)
(* number of its end, a strand without any                                 *)
OpenHelix == Helix(TRUE, "A", 4, NoNum, 1)

Unnumbered == Helix(TRUE, "A", NoNum, NoNum, 0)

HelixKinds ==
    {Malformed, OpenHelix, Helix(TRUE, "A", 1, 5, 5),
     Helix(TRUE, "A", 4, 8, 3), Helix(TRUE, "B", 1, 5, 1)}

StrandKinds ==
    {Malformed, Helix(TRUE, "A", 4, 8, 0), Helix(TRUE, "A", 1, 5, 0),
     Helix(TRUE, "B", 4, 8, 0), Unnumbered}

(* The strands in one sheet, or each strand in a sheet of its own *)
Sheets(strands, layout) ==
    IF layout = "one" THEN <<strands>> ELSE [i \in DOMAIN strands |-> <<strands[i]>>]

Annotated(helices, sheets) == [helices |-> helices, sheets |-> sheets]

AnnotatedStructures ==
    { Annotated(helices, Sheets(strands, layout)) :
      helices \in UNION { [1..n -> HelixKinds] : n \in 0..MaxHelices },
      strands \in UNION { [1..n -> StrandKinds] : n \in 0..MaxStrands },
      layout \in {"one", "each"} }

QueryChains == {"A", "B", "C"}
QueryNumbers == {0, 4, 8, 9, NoNum}

(* residue_ss.py:9-66 *)
BuildIndex ==
    /\ secondary # <<>>
    /\ secondary.ss_index = None
    /\ secondary' = [secondary EXCEPT !.ss_index = Some(build_index(secondary.structure))]
    /\ UNCHANGED <<geom, cache, streamer>>
    /\ UNCHANGED engineVars
    /\ UNCHANGED driverVars

(* residue_ss.py:68-83 *)
GetInfo(chain_name, res_seq_num) ==
    /\ secondary # <<>>
    /\ secondary.ss_index # None
    /\ secondary.query = None
    /\ secondary' = [secondary EXCEPT !.query =
                       Some([chain_name |-> chain_name, res_seq_num |-> res_seq_num,
                             ret |-> get_info(chain_name, res_seq_num,
                                              secondary.ss_index[1])])]
    /\ UNCHANGED <<geom, cache, streamer>>
    /\ UNCHANGED engineVars
    /\ UNCHANGED driverVars

InitSecondary ==
    /\ secondary \in { [structure |-> st, ss_index |-> None, query |-> None] :
                       st \in AnnotatedStructures }
    /\ structure = Structure(<<>>)
    /\ pc = "idle"
    /\ args = DefaultArgs
    /\ models_with_ids = <<>>
    /\ mi = 0
    /\ results = <<>>
    /\ evaluated = <<>>
    /\ calls = <<>>
    /\ InitDriverIdle
    /\ geom = <<>>
    /\ cache = <<>>
    /\ streamer = <<>>

NextSecondary ==
    \/ BuildIndex
    \/ \E ch \in QueryChains, n \in QueryNumbers : GetInfo(ch, n)

SpecSecondary == InitSecondary /\ [][NextSecondary]_vars

(* Properties of the index (SpecSecondary) *)

(* The annotations that can be read, helices first, each in source order *)
Readable ==
    LET hs == SelectSeq(secondary.structure.helices, LAMBDA a : a.ok)
        es == SelectSeq(Flatten(secondary.structure.sheets), LAMBDA a : a.ok)
    IN  [i \in 1..(Len(hs) + Len(es)) |->
            IF i <= Len(hs) THEN [a |-> hs[i], helix |-> TRUE]
            ELSE [a |-> es[i - Len(hs)], helix |-> FALSE]]

(* The annotations that can be read and whose residue ids carry their       *)
(* numbers, helices first, each in source order                            *)
WellFormed ==
    SelectSeq(Readable, LAMBDA x : x.a.start # NoNum /\ x.a.end # NoNum)

Containing(chain_name, n) ==
    { i \in DOMAIN secondary.ss_index[1] :
        /\ secondary.ss_index[1][i].chain = chain_name
        /\ secondary.ss_index[1][i].start # NoNum
        /\ secondary.ss_index[1][i].end # NoNum
        /\ n # NoNum
        /\ secondary.ss_index[1][i].start <= n
        /\ n <= secondary.ss_index[1][i].end }

(* The regions of the chain at which the comparison with residue n meets a  *)
(* missing number: the start or n is missing, or the start is not above n  *)
(* and the end is missing                                                  *)
Uncomparable(chain_name, n) ==
    { i \in DOMAIN secondary.ss_index[1] :
        /\ secondary.ss_index[1][i].chain = chain_name
        /\ \/ secondary.ss_index[1][i].start = NoNum
           \/ n = NoNum
           \/ /\ secondary.ss_index[1][i].start <= n
              /\ secondary.ss_index[1][i].end = NoNum }

----------------------------------------------------------------------------
(* prep.py: the process-level cache of the monomer library                  *)
(*                                                                         *)
(* cache is [CACHED_MONLIB, CACHED_LIB_PATH, created, calls].  A MonLib      *)
(* object is [id, monomers]: id tells one object from another, monomers is  *)
(* the set of [code, path] it was made to read.  created counts the MonLib  *)
(* objects made so far; calls is the log of the calls of                   *)
(* _get_shared_monlib: the path asked for, the object returned and what it  *)
(* held when it was returned.  A path is None or Some(string).             *)
MaxMonlibCalls == 3

MonlibPaths == {None, Some("libA"), Some("libB"), Some("gone")}

(* The residue names of the structure prepared; one holds a blank name *)
ResidueNameSets == {{"TRP"}, {"TRP", "ALA", "   "}}

(* prep.py:17-26  a call of _get_shared_monlib *)
GetSharedMonlib(mon_lib_path) ==
    /\ cache # <<>>
    /\ Len(cache.calls) < MaxMonlibCalls
    /\ cache' = get_shared_monlib(cache, mon_lib_path)
    /\ UNCHANGED <<geom, secondary, streamer>>
    /\ UNCHANGED engineVars
    /\ UNCHANGED driverVars

(* prep.py:35-64  add_hydrogens_memory: with h_change_val = 0 it returns at  *)
(* once; else it gets the library and loads into it the monomers of the    *)
(* structure that it does not hold                                         *)
LoadMonomers(mon_lib_path, names, h_change_val) ==
    /\ cache # <<>>
    /\ Len(cache.calls) < MaxMonlibCalls
    /\ cache' = add_hydrogens_cache(cache, named_codes(names), mon_lib_path, h_change_val)
    /\ UNCHANGED <<geom, secondary, streamer>>
    /\ UNCHANGED engineVars
    /\ UNCHANGED driverVars

InitCache ==
    /\ cache = EmptyCache
    /\ structure = Structure(<<>>)
    /\ pc = "idle"
    /\ args = DefaultArgs
    /\ models_with_ids = <<>>
    /\ mi = 0
    /\ results = <<>>
    /\ evaluated = <<>>
    /\ calls = <<>>
    /\ InitDriverIdle
    /\ geom = <<>>
    /\ secondary = <<>>
    /\ streamer = <<>>

NextCache ==
    \/ \E path \in MonlibPaths : GetSharedMonlib(path)
    \/ \E path \in MonlibPaths, codes \in ResidueNameSets, h \in {0, 4} :
          LoadMonomers(path, codes, h)

SpecCache == InitCache /\ [][NextCache]_vars

(* C19: the cached path is the path of the latest call and the object       *)
(* returned is the cached one; a call with the path of the call before it  *)
(* returns the same object with what it held; a call with another path     *)
(* returns a new, empty object; the cached object holds no monomer read    *)
(* under a path other than the cached one.                                 *)
C19_CacheFollowsLatestPath ==
    cache.calls # <<>> =>
        LET n == Len(cache.calls)
        IN  /\ cache.CACHED_LIB_PATH = cache.calls[n].path
            /\ cache.CACHED_MONLIB # None
            /\ cache.CACHED_MONLIB[1].id = cache.calls[n].ret
            /\ cache.calls[1].held = {}
            /\ \A i \in 1..(n - 1) :
                  /\ cache.calls[i + 1].path = cache.calls[i].path =>
                        /\ cache.calls[i + 1].ret = cache.calls[i].ret
                        /\ cache.calls[i].held \subseteq cache.calls[i + 1].held
                  /\ cache.calls[i + 1].path # cache.calls[i].path =>
                        /\ \A j \in 1..i : cache.calls[i + 1].ret # cache.calls[j].ret
                        /\ cache.calls[i + 1].held = {}
            /\ \A i \in 1..n : \A m \in cache.calls[i].held : m.path = cache.calls[i].path
            /\ \A m \in cache.CACHED_MONLIB[1].monomers : m.path = cache.CACHED_LIB_PATH

C19_Witness ==
    /\ Len(cache.calls) = 3
    /\ cache.calls[1].path = Some("libA")
    /\ cache.calls[2].path = Some("libA")
    /\ cache.calls[2].ret = cache.calls[1].ret
    /\ cache.calls[2].held # {}
    /\ cache.calls[3].path = Some("libB")
    /\ cache.calls[3].ret # cache.calls[2].ret
    /\ cache.calls[3].held = {}
    /\ cache.CACHED_MONLIB[1].monomers # {}

----------------------------------------------------------------------------
(* cli.py: ResultStreamer                                                   *)
(*                                                                         *)
(* A record is a dict: a sequence of <<key, value>> pairs in key order, the *)
(* values as they are printed.  The file is the sequence of the pieces     *)
(* written to it, each [kind, body]: "open" is '[\n', "sep" is ',\n',       *)
(* "close" is '\n]', "object" is one json.dump with the keys and values of  *)
(* the item in its body, "header" is the CSV header with the field names   *)
(* and "row" one CSV row with the values of the fields.                    *)
SIMPLE_COLS ==
    <<"pdb", "resolution", "pi_chain", "pi_res", "pi_id", "X_chain", "X_res", "X_id",
      "X_atom", "H_atom", "dist_X_Pi", "is_plevin", "is_hudson", "remark">>

Keys(item) == [i \in DOMAIN item |-> item[i][1]]

ValueOf(item, key) == item[CHOOSE i \in DOMAIN item : item[i][1] = key][2]

Piece(kind, body) == [kind |-> kind, body |-> body]

(* cli.py:68  file_type.lower(), on the spellings of the file types *)
lower(file_type) ==
    CASE file_type \in {"csv", "CSV", "Csv"} -> "csv"
      [] file_type \in {"json", "JSON", "Json"} -> "json"
      [] file_type \in {"txt", "TXT"} -> "txt"

(* cli.py:66-73 *)
ResultStreamer(file_type, verbose) ==
    [file_type |-> lower(file_type), verbose |-> verbose, file_handle |-> "none", file |-> <<>>,
     fieldnames |-> <<>>, is_first_chunk |-> TRUE, has_written_data |-> FALSE,
     chunks |-> <<>>]

(* cli.py:75-82 *)
enter(self) ==
    [self EXCEPT !.file_handle = "open",
                 !.file = IF self.file_type = "json" THEN <<Piece("open", <<>>)>> ELSE <<>>]

(* cli.py:84-89 *)
exit(self) ==
    [self EXCEPT !.file_handle = "closed",
                 !.file = IF self.file_type = "json" THEN Append(@, Piece("close", <<>>))
                          ELSE @]

(* cli.py:91-96 *)
get_fieldnames(self, first_record) ==
    IF self.verbose THEN Keys(first_record)
    ELSE SelectSeq(SIMPLE_COLS, LAMBDA k : k \in Range(Keys(first_record)))

(* cli.py:105, 128  the test of is_first_chunk *)
AlwaysFirstChunk(self) == TRUE

IsFirstChunk(self) == self.is_first_chunk

(* csv.DictWriter.writerows with extrasaction='ignore' *)
Rows(fieldnames, found) ==
    [i \in DOMAIN found |->
        Piece("row", [j \in DOMAIN fieldnames |-> ValueOf(found[i], fieldnames[j])])]

(* cli.py:104-111 *)
write_csv(self, found) ==
    IF IsFirstChunk(self)
    THEN [self EXCEPT !.fieldnames = get_fieldnames(self, found[1]),
                      !.is_first_chunk = FALSE,
                      !.file = @ \o <<Piece("header", get_fieldnames(self, found[1]))>>
                                 \o Rows(get_fieldnames(self, found[1]), found)]
    ELSE [self EXCEPT !.file = @ \o Rows(self.fieldnames, found)]

(* cli.py:120-126  clean_item *)
CleanItem(verbose, keys_to_keep, item) ==
    IF verbose THEN item ELSE SelectSeq(item, LAMBDA kv : kv[1] \in keys_to_keep)

(* json.dump(clean_item): the keys and the values in the item's order *)
Dumped(clean_item) ==
    Piece("object", Flatten([i \in DOMAIN clean_item |-> clean_item[i]]))

(* cli.py:128-133 *)
write_item(self, clean_item) ==
    IF ~IsFirstChunk(self)
    THEN [self EXCEPT !.file = @ \o <<Piece("sep", <<>>), Dumped(clean_item)>>]
    ELSE [self EXCEPT !.is_first_chunk = FALSE, !.file = Append(@, Dumped(clean_item))]

(* cli.py:114-123  keys_to_keep: of the first item of the chunk *)
KeysToKeep(found) == { k \in Range(SIMPLE_COLS) : k \in Range(Keys(found[1])) }

(* cli.py:119-133 *)
RECURSIVE write_items(_, _, _)
write_items(self, keys_to_keep, items) ==
    IF items = <<>> THEN self
    ELSE write_items(write_item(self, CleanItem(self.verbose, keys_to_keep, Head(items))),
                     keys_to_keep, Tail(items))

(* cli.py:98-133 *)
write_chunk(self, found) ==
    IF found = <<>> THEN self
    ELSE IF self.file_type = "csv"
    THEN write_csv([self EXCEPT !.has_written_data = TRUE], found)
    ELSE IF self.file_type = "json"
    THEN write_items([self EXCEPT !.has_written_data = TRUE], KeysToKeep(found), found)
    ELSE [self EXCEPT !.has_written_data = TRUE]

(* cli.py:150-153 *)
save_single_file_results(found, file_type, verbose) ==
    exit(write_chunk(enter(ResultStreamer(file_type, verbose)), found)).file

(* The streamer driven as cli.py drives it: __enter__, write_chunk per chunk *)
(* of results, __exit__.                                                   *)
MaxChunks == 3
MaxChunkLen == 2

StreamRecord(x_atom, theta) ==
    <<<<"pdb", "1abc">>, <<"model", "1">>, <<"pi_res", "TRP">>, <<"X_atom", x_atom>>,
      <<"theta", theta>>, <<"is_plevin", "1">>>>

StreamRecords == {StreamRecord("CB", "20.5"), StreamRecord("NZ", "None")}

Chunks == UNION {[1..n -> StreamRecords] : n \in 0..MaxChunkLen}

FileTypes == {"csv", "json", "CSV", "Json"}

Enter ==
    /\ streamer.file_handle = "none"
    /\ streamer' = enter(streamer)
    /\ UNCHANGED <<geom, secondary, cache>>
    /\ UNCHANGED engineVars
    /\ UNCHANGED driverVars

WriteChunk(found) ==
    /\ streamer.file_handle = "open"
    /\ Len(streamer.chunks) < MaxChunks
    /\ streamer' = [write_chunk(streamer, found) EXCEPT !.chunks = Append(@, found)]
    /\ UNCHANGED <<geom, secondary, cache>>
    /\ UNCHANGED engineVars
    /\ UNCHANGED driverVars

Exit ==
    /\ streamer.file_handle = "open"
    /\ streamer' = exit(streamer)
    /\ UNCHANGED <<geom, secondary, cache>>
    /\ UNCHANGED engineVars
    /\ UNCHANGED driverVars

InitStreamer ==
    /\ \E file_type \in FileTypes, verbose \in BOOLEAN :
          streamer = ResultStreamer(file_type, verbose)
    /\ structure = Structure(<<>>)
    /\ pc = "idle"
    /\ args = DefaultArgs
    /\ models_with_ids = <<>>
    /\ mi = 0
    /\ results = <<>>
    /\ evaluated = <<>>
    /\ calls = <<>>
    /\ InitDriverIdle
    /\ geom = <<>>
    /\ secondary = <<>>
    /\ cache = <<>>

NextStreamer ==
    \/ Enter
    \/ \E found \in Chunks : WriteChunk(found)
    \/ Exit

SpecStreamer == InitStreamer /\ [][NextStreamer]_vars

Written == Flatten(streamer.chunks)

KindsOf(file) == [i \in DOMAIN file |-> file[i].kind]

Count(file, kind) == Cardinality({i \in DOMAIN file : file[i].kind = kind})

(* C20: when the streamer is closed, the file is the file a single          *)
(* write_chunk of the concatenation of the chunks produces; a CSV file has  *)
(* its header once, as its first line, exactly when a record was written,   *)
(* then one row per record in order; a JSON file is the opening bracket,    *)
(* the records in order with one separator between two consecutive ones    *)
(* and none before the first or after the last, and the closing bracket.   *)
C20_ChunkingInvariance ==
    streamer.file_handle = "closed" =>
        LET n == Len(Written)
            file == streamer.file
        IN  /\ file = save_single_file_results(Written, streamer.file_type, streamer.verbose)
            /\ streamer.has_written_data <=> n > 0
            /\ streamer.file_type = "csv" =>
                  /\ Len(file) = IF n = 0 THEN 0 ELSE n + 1
                  /\ n > 0 => file[1] = Piece("header", get_fieldnames(streamer, Written[1]))
                  /\ Count(file, "header") = IF n = 0 THEN 0 ELSE 1
                  /\ \A i \in 1..n :
                        /\ file[i + 1].kind = "row"
                        /\ Len(file[i + 1].body) = Len(file[1].body)
                        /\ \A j \in DOMAIN file[1].body :
                              file[i + 1].body[j] = ValueOf(Written[i], file[1].body[j])
            /\ streamer.file_type = "json" =>
                  /\ Len(file) = IF n = 0 THEN 2 ELSE 2 * n + 1
                  /\ file[1].kind = "open"
                  /\ file[Len(file)].kind = "close"
                  /\ Count(file, "sep") = IF n = 0 THEN 0 ELSE n - 1
                  /\ \A i \in 1..n :
                        /\ file[2 * i].kind = "object"
                        /\ streamer.verbose => file[2 * i] = Dumped(Written[i])
                        /\ ~streamer.verbose =>
                              file[2 * i] = Dumped(SelectSeq(Written[i],
                                                LAMBDA kv : kv[1] \in Range(SIMPLE_COLS)))
                  /\ \A i \in 1..(n - 1) : file[2 * i + 1].kind = "sep"

C20_Witness ==
    /\ streamer.file_handle = "closed"
    /\ Len(streamer.chunks) = 3
    /\ Len(streamer.chunks[1]) = 1
    /\ streamer.chunks[2] = <<>>
    /\ Len(streamer.chunks[3]) = 2
    /\ streamer.chunks[3][1] # streamer.chunks[1][1]
    /\ ~streamer.verbose
    /\ streamer.file_type = "json"
    /\ Count(streamer.file, "sep") = 2

----------------------------------------------------------------------------
(* cli.py:322-354  main() in merged mode over a batch of files              *)
(*                                                                         *)
(* The files of the batch fail to parse, fail in the preparation, hold no   *)
(* interaction, one or two; their tasks complete in any order.             *)
MaxTasks == 3

LysX == XMark("B", "LYS", 39, "NZ", "N", "", 4100000, 10000000, 1000000,
              <<HMark("HZ1", "H", "", 1010000, 150000000, 20000000)>>)

TwoHits ==
    Structure(<<Model(TRUE, "1", <<Chain("A", <<
        Residue("TYR", 15, FullAtoms("TYR"), <<GoodX, LysX>>, <<>>)>>)>>)>>)

(* The kinds of file of a merged run, in a round: one record, a read        *)
(* failure, two records, no record, a preparation failure                  *)
MergedKinds ==
    <<FileKinds[6], FileKinds[1], FileKind(TRUE, FALSE, TwoHits), FileKinds[2],
      FileKind(TRUE, TRUE, TwoHits)>>

MergedBatches ==
    { [i \in 1..MaxTasks |-> File(i, Window(MergedKinds, first, MaxTasks)[i])] :
      first \in DOMAIN MergedKinds }

InitMerged ==
    /\ structure = Structure(<<>>)
    /\ pc = "idle"
    /\ args = DefaultArgs
    /\ models_with_ids = <<>>
    /\ mi = 0
    /\ results = <<>>
    /\ evaluated = <<>>
    /\ calls = <<>>
    /\ batch \in MergedBatches
    /\ opts \in { [hmode |-> h, separate_mode |-> FALSE, model_mode |-> ModeInt(0),
                   mon_lib |-> lib, jobs |-> j] :
                  h \in {0, 4}, lib \in DriverLibs, j \in JobCounts }
    /\ pool = NewPool(opts.jobs)
    /\ pending = DOMAIN batch
    /\ outcomes = [i \in DOMAIN batch |-> None]
    /\ error_logs = <<>>
    /\ total_found = 0
    /\ merged = <<>>
    /\ api = [i \in DOMAIN batch |-> None]
    /\ cache = [p \in Processes(opts.jobs) |-> EmptyCache]
    /\ geom = <<>>
    /\ secondary = <<>>
    /\ streamer = <<>>

NextMerged ==
    \/ \E w \in Workers(opts.jobs) : TakeTask(w)
    \/ \E w \in Workers(opts.jobs) : RunTask(w)
    \/ DeliverResult

SpecMerged == InitMerged /\ [][NextMerged]_vars

(* The tasks whose result main() has accounted for *)
Delivered == DOMAIN batch \ pending

(* What the task of file i returns, the other tasks left aside *)
Alone(i) == process_one_file(batch[i], opts)

(* What main() received from the task of file i *)
Outcome(i) == outcomes[i][1]

HitsOfOutcome(i) == IF Outcome(i).data = None THEN <<>> ELSE Outcome(i).data[1]

RECURSIVE SumCounts(_)
SumCounts(S) ==
    IF S = {} THEN 0
    ELSE LET i == CHOOSE j \in S : TRUE IN Outcome(i).count + SumCounts(S \ {i})

(* The positions of the merged output that hold records of file i *)
BlockOf(i) == { k \in DOMAIN merged : merged[k].pdb = batch[i].pdb_name }

ErrorsOf(i) == { k \in DOMAIN error_logs : error_logs[k].pdb_name = batch[i].pdb_name }

(* C21: in merged mode, whatever the order the tasks complete in, a file is *)
(* pending or accounted for, never both; the outcome of a task is what the  *)
(* task returns when it runs alone; the records of a structure whose       *)
(* result was received lie in the merged output once, as one contiguous     *)
(* block in the order the task returned them, and no other record lies      *)
(* there; a failed structure has one error entry and no record, a          *)
(* successful one no error entry; the total is the sum of the hit counts    *)
(* of the results received.                                                *)
C21_MergedAccounting ==
    /\ \A i \in DOMAIN batch : (i \in pending) <=> (outcomes[i] = None)
    /\ \A i \in Delivered : Outcome(i) = Alone(i)
    /\ \A i \in pending : BlockOf(i) = {} /\ ErrorsOf(i) = {}
    /\ \A i \in Delivered :
          /\ Cardinality(BlockOf(i)) = Len(HitsOfOutcome(i))
          /\ BlockOf(i) # {} =>
                LET first == CHOOSE k \in BlockOf(i) : \A l \in BlockOf(i) : k <= l
                IN  /\ BlockOf(i) = first..(first + Len(HitsOfOutcome(i)) - 1)
                    /\ \A n \in DOMAIN HitsOfOutcome(i) :
                          merged[first + n - 1] = HitsOfOutcome(i)[n]
          /\ Outcome(i).err # None =>
                /\ Cardinality(ErrorsOf(i)) = 1
                /\ BlockOf(i) = {}
                /\ Outcome(i).count = 0
          /\ Outcome(i).err = None =>
                /\ ErrorsOf(i) = {}
                /\ Outcome(i).count = Len(HitsOfOutcome(i))
    /\ DOMAIN merged = UNION { BlockOf(i) : i \in Delivered }
    /\ Len(error_logs) = Cardinality({ i \in Delivered : Outcome(i).err # None })
    /\ total_found = SumCounts(Delivered)
    /\ total_found = Len(merged)

(* All results are in; a structure of two records arrived first, a failed   *)
(* one second, and the first file of the batch, with a record, last.       *)
C21_Witness ==
    /\ pending = {}
    /\ Len(batch) >= 3
    /\ Len(HitsOfOutcome(3)) = 2
    /\ Outcome(2).err # None
    /\ Len(HitsOfOutcome(1)) = 1
    /\ BlockOf(3) = {1, 2}
    /\ BlockOf(1) = {3}
    /\ Len(error_logs) = 1
    /\ total_found = 3

====
